---- MODULE Spec2Model ----
(***************************************************************************)
(* FormulaSim: the two flow simulations (AirflowEffect, CfdEffect), the    *)
(* flow-field functions they use, and the host script that drives them.    *)
(*                                                                         *)
(* Units.  Speeds are in tenths of km/h.  speedFactor is kept in 350ths.   *)
(* Opacities, scales and radii are in millionths.  Flow coordinates,       *)
(* velocities and pressure coefficients are in thousandths.  Time is in    *)
(* ticks of 0.05 s (the host clamps a frame's dt to 0.05 s).               *)
(***************************************************************************)
EXTENDS Integers, Sequences, FiniteSets, TLC

VARIABLES
    cfd,        \* the CfdEffect object
    airflow,    \* the AirflowEffect object
    scene,      \* names of the groups attached to the host scene
    gpu,        \* geometries and materials created and not yet disposed
    call,       \* the last operation invoked on an effect, and what it did
    shown,      \* per effect, the last value passed to setVisible
    recolorAt,  \* the speed of the last patch-colour recompute, -1 when there
                \* was none since the patches were built or the wing toggled
    frames,     \* number of frames followed so far: visible
                \* AirflowEffect.update() calls, or animate() frames of the host
    host,       \* the host script: its `state` object, its position, and the
                \* exception its current handler has thrown, if any
    bound,      \* per effect, what the host's variable is bound to
    rain,       \* the RainEffect object
    optimal,    \* the OptimalWeatherEffect object
    flow        \* the last call of a function of airflow-core.js: its name,
                \* its arguments and what it returned

vars == <<cfd, airflow, scene, gpu, call, shown, recolorAt, frames,
          host, bound, rain, optimal, flow>>

----------------------------------------------------------------------------
(* Bounds of the model *)

MaxT == 1        \* update(dt, t) is called with t in 0..MaxT ticks
MaxFrames == 1   \* visible AirflowEffect.update() calls that are followed
MaxParticleFrames == 3   \* frames over which the particles are followed
SmokeProbe == 59 \* index of the smoke particle whose buffers are followed
WakeProbe == 0   \* index of the wake particle whose buffers are followed
MaxHostFrames == 1 \* animate() frames of the host that are followed
MaxFailing == 1  \* constructors that throw while the page loads

\* dt = Math.min(clock.getDelta(), 0.05): at most one tick
MaxDt == 1

\* speeds passed to setSpeed
Speeds == {0, 40, 4000}

\* The speeds an AirflowEffect is given: rest, the vortex threshold of 30 km/h
\* and the next km/h, the maximum of 350 km/h, and a speed above it
AirflowSpeeds == {0, 300, 310, 3500, 4000}

\* vehicle-type codes passed to setCarType; "XX" is not a known type, and
\* neither is "constructor", which every table inherits as a property
TypeCodes == {"F1", "GT", "XX", "constructor"}

\* data-car values of the car buttons that are pressed
CarButtons == {"F1", "GT"}

\* targets passed to the host's setSpeed(v)
HostSpeeds == {0, 3500}

\* Streams of Math.random() values in thousandths (0 <= value < 1000): the
\* k-th draw a call makes for the particle it works on is stream[k]
RandStreams ==
    { [k \in 0..6 |-> IF k % 2 = 0 THEN 0 ELSE 999],
      [k \in 0..6 |-> IF k % 2 = 0 THEN 999 ELSE 0] }

----------------------------------------------------------------------------
(* Arithmetic helpers *)

Abs(x) == IF x < 0 THEN -x ELSE x
Min(a, b) == IF a <= b THEN a ELSE b
Max(a, b) == IF a >= b THEN a ELSE b

\* 10 * sin(k / 10) rounded, for k = 0..62 (one period in tenths of a radian)
SinTable ==
    <<0, 1, 2, 3, 4, 5, 6, 6, 7, 8, 8, 9, 9, 10, 10, 10, 10, 10, 10, 9, 9,
      9, 8, 7, 7, 6, 5, 4, 3, 2, 1, 0, -1, -2, -3, -4, -4, -5, -6, -7, -8,
      -8, -9, -9, -10, -10, -10, -10, -10, -10, -10, -9, -9, -8, -8, -7,
      -6, -6, -5, -4, -3, -2, -1>>

\* Math.sin of an angle given in tenths of a radian, in tenths
Sin10(a10) == SinTable[(a10 % 63) + 1]

\* F applied to the value of v, which is computed once
Eval(v, F(_)) == CHOOSE r \in {F(x) : x \in {v}} : TRUE

RECURSIVE SqrtIter(_, _)
SqrtIter(n, x) ==
    Eval((x + n \div x) \div 2, LAMBDA y : IF y >= x THEN x ELSE SqrtIter(n, y))

\* Math.sqrt, rounded down
Sqrt(n) == Eval(n, LAMBDA m : IF m <= 0 THEN 0 ELSE SqrtIter(m, m))

\* rnd(min, max) = min + Math.random() * (max - min), u the random value
rnd(min, max, u) == min + (u * (max - min)) \div 1000

----------------------------------------------------------------------------
(* airflow-core.js *)

\* topViewVelocity with the body taken as r2 < 1, its surface left out
topViewVelocityOpenBody(xi, eta) ==
    LET r2 == xi * xi + eta * eta
    IN  IF r2 < 1000000 THEN [vxi |-> 0, veta |-> 0]
        ELSE LET r2m == r2 \div 1000
                 a == (xi * 1000) \div r2m
                 b == (eta * 1000) \div r2m
             IN  [vxi |-> (-2 * a * b) \div 1000,
                  veta |-> 1000 - (b * b - a * a) \div 1000]

\* topViewVelocity(xi, eta), arguments and result in thousandths
topViewVelocity(xi, eta) ==
    LET r2 == xi * xi + eta * eta            \* millionths
    IN  IF r2 <= 1000000 THEN [vxi |-> 0, veta |-> 0]
        ELSE LET r2m == r2 \div 1000         \* thousandths
                 a == (xi * 1000) \div r2m   \* xi / r2
                 b == (eta * 1000) \div r2m  \* eta / r2
             IN  [vxi |-> (-2 * a * b) \div 1000,
                  veta |-> 1000 - (b * b - a * a) \div 1000]

\* pressureCoeff(vxi, veta) = 1 - (vxi^2 + veta^2), in thousandths
pressureCoeff(vxi, veta) == 1000 - (vxi * vxi + veta * veta) \div 1000

\* cpToColor(cp): cp in thousandths, channels in thousandths
cpToColor(cp) ==
    LET t == Max(0, Min(1000, (cp + 3000) \div 4))
        clamp(x) == Max(0, Min(1000, x))
        raw == IF t < 250 THEN [r |-> 0, g |-> t * 4, b |-> 1000]
               ELSE IF t < 500 THEN [r |-> 0, g |-> 1000, b |-> 1000 - (t - 250) * 4]
               ELSE IF t < 750 THEN [r |-> (t - 500) * 4, g |-> 1000, b |-> 0]
               ELSE [r |-> 1000, g |-> 1000 - (t - 750) * 4, b |-> 0]
    IN  [r |-> clamp(raw.r), g |-> clamp(raw.g), b |-> clamp(raw.b)]

\* sideViewVelocity(etaNorm, yNorm), arguments and result in thousandths
sideViewVelocity(etaNorm, yNorm) ==
    LET r2 == etaNorm * etaNorm + yNorm * yNorm
    IN  IF r2 <= 1000000 THEN [veta |-> 0, vy |-> 0]
        ELSE LET r2m == r2 \div 1000
                 a == (etaNorm * 1000) \div r2m
                 b == (yNorm * 1000) \div r2m
             IN  [veta |-> 1000 - (a * a - b * b) \div 1000,
                  vy |-> (-2 * a * b) \div 1000]

\* One iteration of the loop without the test that stops it at the body
TraceStepThroughBody(xi, eta, stepSize) ==
    Eval(topViewVelocity(xi, eta), LAMBDA v :
    Eval(Sqrt(v.vxi * v.vxi + v.veta * v.veta), LAMBDA speed :
        LET pt == [xi |-> xi, eta |-> eta, vxi |-> v.vxi, veta |-> v.veta]
            xi2 == xi + (v.vxi * stepSize) \div speed
            eta2 == eta + (v.veta * stepSize) \div speed
        IN  IF speed < 1
            THEN [path |-> <<pt>>, xi |-> xi, eta |-> eta, brk |-> TRUE]
            ELSE [path |-> <<pt>>, xi |-> xi2, eta |-> eta2, brk |-> FALSE]))

\* One iteration of the loop of traceStreamlinePath: the point pushed, the
\* position stepped to, and whether the loop breaks
TraceStep(xi, eta, stepSize) ==
    Eval(topViewVelocity(xi, eta), LAMBDA v :
    Eval(Sqrt(v.vxi * v.vxi + v.veta * v.veta), LAMBDA speed :
        LET pt == [xi |-> xi, eta |-> eta, vxi |-> v.vxi, veta |-> v.veta]
            xi2 == xi + (v.vxi * stepSize) \div speed
            eta2 == eta + (v.veta * stepSize) \div speed
        IN  IF speed < 1                              \* speed < 1e-6
            THEN [path |-> <<pt>>, xi |-> xi, eta |-> eta, brk |-> TRUE]
            ELSE [path |-> <<pt>>, xi |-> xi2, eta |-> eta2,
                  brk |-> xi2 * xi2 + eta2 * eta2 <= 1000000]))

\* n iterations of the loop from (xi, eta), split in halves
RECURSIVE TraceLoop(_, _, _, _)
TraceLoop(xi, eta, n, stepSize) ==
    IF n = 1 THEN TraceStep(xi, eta, stepSize)
    ELSE Eval(TraceLoop(xi, eta, n \div 2, stepSize), LAMBDA first :
            IF first.brk THEN first
            ELSE Eval(TraceLoop(first.xi, first.eta, n - n \div 2, stepSize),
                      LAMBDA rest : [rest EXCEPT !.path = first.path \o @]))

\* traceStreamlinePath with the loop condition i <= steps
traceStreamlinePathInclusive(seedXi, seedEta, steps, stepSize) ==
    IF steps < 0 THEN <<>> ELSE TraceLoop(seedXi, seedEta, steps + 1, stepSize).path

\* traceStreamlinePath(seedXi, seedEta, steps, stepSize), in thousandths
traceStreamlinePath(seedXi, seedEta, steps, stepSize) ==
    IF steps <= 0 THEN <<>> ELSE TraceLoop(seedXi, seedEta, steps, stepSize).path

----------------------------------------------------------------------------
(* cfd-effect.js: static definitions *)

\* CFD_PATCHES: w and h in thousandths
CFD_PATCHES ==
    [F1 |-> << [role |-> "frontWing",    w |-> 1740, h |-> 340],
               [role |-> "sidepodInlet", w |-> 65,   h |-> 320],
               [role |-> "sidepodInlet", w |-> 65,   h |-> 320],
               [role |-> "engineCover",  w |-> 500,  h |-> 1150],
               [role |-> "diffuser",     w |-> 1140, h |-> 1000],
               [role |-> "rearWing",     w |-> 1920, h |-> 360] >>,
     F2 |-> << [role |-> "frontWing",    w |-> 1740, h |-> 300],
               [role |-> "sidepodInlet", w |-> 55,   h |-> 272],
               [role |-> "sidepodInlet", w |-> 55,   h |-> 272],
               [role |-> "engineCover",  w |-> 480,  h |-> 1000],
               [role |-> "diffuser",     w |-> 1000, h |-> 880],
               [role |-> "rearWing",     w |-> 1740, h |-> 300] >>,
     F3 |-> << [role |-> "frontWing",    w |-> 1460, h |-> 240],
               [role |-> "diffuser",     w |-> 880,  h |-> 760],
               [role |-> "rearWing",     w |-> 1560, h |-> 260] >>,
     GT |-> << [role |-> "rearWing",     w |-> 1760, h |-> 420],
               [role |-> "frontBumper",  w |-> 1840, h |-> 400],
               [role |-> "diffuser",     w |-> 1100, h |-> 780] >>]

\* ZONE_BLOBS: r and intensity in hundredths, phase in tenths of a radian
ZONE_BLOBS ==
    [F1 |-> << [role |-> "stagnation",   r |-> 28, intensity |-> 100, phase |-> 0],
               [role |-> "suction",      r |-> 40, intensity |-> 90,  phase |-> 11],
               [role |-> "sidepodInlet", r |-> 22, intensity |-> 70,  phase |-> 5],
               [role |-> "sidepodInlet", r |-> 22, intensity |-> 70,  phase |-> 5],
               [role |-> "diffuser",     r |-> 55, intensity |-> 90,  phase |-> 22],
               [role |-> "rearWing",     r |-> 30, intensity |-> 70,  phase |-> 8] >>,
     F2 |-> << [role |-> "stagnation",   r |-> 24, intensity |-> 85,  phase |-> 0],
               [role |-> "suction",      r |-> 35, intensity |-> 72,  phase |-> 11],
               [role |-> "sidepodInlet", r |-> 18, intensity |-> 60,  phase |-> 5],
               [role |-> "sidepodInlet", r |-> 18, intensity |-> 60,  phase |-> 5],
               [role |-> "diffuser",     r |-> 45, intensity |-> 76,  phase |-> 22],
               [role |-> "rearWing",     r |-> 26, intensity |-> 58,  phase |-> 8] >>,
     F3 |-> << [role |-> "stagnation",   r |-> 20, intensity |-> 68,  phase |-> 0],
               [role |-> "diffuser",     r |-> 38, intensity |-> 55,  phase |-> 22],
               [role |-> "rearWing",     r |-> 22, intensity |-> 55,  phase |-> 8] >>,
     GT |-> << [role |-> "stagnation",   r |-> 40, intensity |-> 85,  phase |-> 0],
               [role |-> "diffuser",     r |-> 50, intensity |-> 65,  phase |-> 22],
               [role |-> "rearWing",     r |-> 35, intensity |-> 60,  phase |-> 8] >>]

\* VORTEX_CORES: x, y, z in hundredths
VORTEX_CORES ==
    [F1 |-> << [x |-> -48, y |-> -4,  z |-> 193, sign |-> 1],
               [x |-> 48,  y |-> -4,  z |-> 193, sign |-> -1] >>,
     F2 |-> << [x |-> -40, y |-> -4,  z |-> 180, sign |-> 1],
               [x |-> 40,  y |-> -4,  z |-> 180, sign |-> -1] >>,
     F3 |-> << [x |-> -32, y |-> -4,  z |-> 168, sign |-> 1],
               [x |-> 32,  y |-> -4,  z |-> 168, sign |-> -1] >>,
     GT |-> << [x |-> -44, y |-> -10, z |-> 214, sign |-> 1],
               [x |-> 44,  y |-> -10, z |-> 214, sign |-> -1] >>]

\* CFD_PATCHES[type] || CFD_PATCHES.F1
\* The tables are object literals: table[type] also finds the properties
\* they inherit from Object.prototype, among them these
Inherited ==
    {"constructor", "toString", "toLocaleString", "valueOf", "hasOwnProperty",
     "isPrototypeOf", "propertyIsEnumerable", "__proto__"}

\* What table[type] yields for an inherited name: a function or a prototype
\* object, truthy, with none of a definition's fields and not iterable
ObjectMember == [inherited |-> TRUE]

\* throw: the exception leaves the method and the statements after it are
\* not run
Raise(w, error) == [w EXCEPT !.host.fault = error]

CfdPatchDefs(type) ==
    IF type \in DOMAIN CFD_PATCHES THEN CFD_PATCHES[type]
    ELSE IF type \in Inherited THEN ObjectMember ELSE CFD_PATCHES["F1"]

\* ZONE_BLOBS[type] || ZONE_BLOBS.F1
CfdBlobDefs(type) ==
    IF type \in DOMAIN ZONE_BLOBS THEN ZONE_BLOBS[type]
    ELSE IF type \in Inherited THEN ObjectMember ELSE ZONE_BLOBS["F1"]

\* VORTEX_CORES[type] || VORTEX_CORES.F1
CfdVortexDefs(type) ==
    IF type \in DOMAIN VORTEX_CORES THEN VORTEX_CORES[type]
    ELSE IF type \in Inherited THEN ObjectMember ELSE VORTEX_CORES["F1"]

\* const SEG = 8: subdivisions per patch axis
SEG == 8

\* The vertices of a patch's (SEG+1) x (SEG+1) grid whose colours the model
\* follows: a corner and the centre.
PatchProbes == << [i |-> 0, j |-> 0], [i |-> 4, j |-> 4] >>

\* Math.min(this._speed / 350, 1), in 350ths
\* speedFactor without the clamp of Math.min(..., 1)
speedFactorUnclamped(speed) == speed \div 10

speedFactor(speed) == Min(speed, 3500) \div 10

\* The primitive (mesh, line or point cloud) an effect builds
Prim(owner, kind, type, i) == [owner |-> owner, kind |-> kind, type |-> type, i |-> i]

\* geometry.dispose() and material.dispose() of every primitive in ids
GpuDispose(g, ids) == [geo |-> g.geo \ ids, mat |-> g.mat \ ids]

\* new Geometry / new Material for every primitive in ids
GpuAlloc(g, ids) == [geo |-> g.geo \cup ids, mat |-> g.mat \cup ids]

Ids(meshes) == {meshes[k].id : k \in DOMAIN meshes}

----------------------------------------------------------------------------
(* cfd-effect.js: CfdEffect *)

\* _buildPatches(type): every vertex starts with cpToColor(0), opacity 0.55
CfdBuildPatches(type) ==
    LET defs == CfdPatchDefs(type)
    IN  [k \in 1..Len(defs) |->
            [id |-> Prim("cfd", "patch", type, k),
             patchDef |-> defs[k],
             colors |-> [v \in DOMAIN PatchProbes |-> cpToColor(0)],
             opacity |-> 550000]]

\* _buildBlobs(type): opacity 0, scale 1
CfdBuildBlobs(type) ==
    LET defs == CfdBlobDefs(type)
    IN  [k \in 1..Len(defs) |->
            [id |-> Prim("cfd", "blob", type, k), scale |-> 1000000, opacity |-> 0]]

\* _buildVortexCores(type): opacity 0, positions all zero (pos = <<>>)
CfdBuildVortexCores(type) ==
    LET defs == CfdVortexDefs(type)
    IN  [k \in 1..Len(defs) |->
            [id |-> Prim("cfd", "vortex", type, k), opacity |-> 0, pos |-> <<>>]]

\* _build(type): the three builders push onto the arrays and add to the group.
\* For an inherited name `for (const p of patches)` in _buildPatches throws
\* before anything is built.
CfdBuild(w, type) ==
    IF type \in Inherited THEN Raise(w, "TypeError: patches is not iterable")
    ELSE
    LET p == CfdBuildPatches(type)
        b == CfdBuildBlobs(type)
        v == CfdBuildVortexCores(type)
        new == Ids(p) \cup Ids(b) \cup Ids(v)
    IN  [w EXCEPT !.cfd.patchMeshes = @ \o p,
                  !.cfd.blobMeshes = @ \o b,
                  !.cfd.vortexLines = @ \o v,
                  !.cfd.group.children = @ \cup new,
                  !.gpu = GpuAlloc(@, new)]

\* _disposeAll that empties the arrays and leaves the group as it is
CfdDisposeAllArraysOnly(w) ==
    [w EXCEPT !.cfd.patchMeshes = <<>>,
              !.cfd.blobMeshes = <<>>,
              !.cfd.vortexLines = <<>>]

\* _disposeAll(): dispose and remove every child of the group, empty the arrays
CfdDisposeAll(w) ==
    [w EXCEPT !.gpu = GpuDispose(@, w.cfd.group.children),
              !.cfd.group.children = {},
              !.cfd.patchMeshes = <<>>,
              !.cfd.blobMeshes = <<>>,
              !.cfd.vortexLines = <<>>]

\* The fields the constructor sets before _build('F1')
CfdFields ==
    [speed |-> 0, visible |-> FALSE, type |-> "F1", wingStalled |-> FALSE,
     speedDirty |-> TRUE, lastBuiltSpeed |-> -10,
     patchMeshes |-> <<>>, blobMeshes |-> <<>>, vortexLines |-> <<>>,
     group |-> [visible |-> TRUE, children |-> {}]]

\* constructor(scene)
CfdConstruct(w) ==
    LET w1 == [w EXCEPT !.scene = @ \cup {"cfd"}, !.cfd = CfdFields]
        w2 == CfdBuild(w1, "F1")
    IN  [w2 EXCEPT !.cfd.group.visible = FALSE]

\* setCarType without the early return: rebuilds even for the current type
CfdSetCarTypeAlways(w, type) ==
    LET w1 == [w EXCEPT !.cfd.type = type]
        w2 == CfdDisposeAll(w1)
        w3 == CfdBuild(w2, type)
    IN  IF type \in Inherited THEN w3
        ELSE [w3 EXCEPT !.cfd.group.visible = w3.cfd.visible,
                        !.cfd.lastBuiltSpeed = -10]

\* setCarType(type)
CfdSetCarType(w, type) ==
    IF w.cfd.type = type THEN w
    ELSE LET w1 == [w EXCEPT !.cfd.type = type]
             w2 == CfdDisposeAll(w1)
             w3 == CfdBuild(w2, type)
         IN  IF w3.host.fault # "none" THEN w3
             ELSE [w3 EXCEPT !.cfd.group.visible = w3.cfd.visible,
                             !.cfd.lastBuiltSpeed = -10]

\* setSpeed that applies the patch opacity of the new speed at once
CfdSetSpeedEager(w, speed) ==
    [w EXCEPT !.cfd.speed = speed,
              !.cfd.speedDirty = TRUE,
              !.cfd.patchMeshes =
                  [k \in DOMAIN @ |->
                      [@[k] EXCEPT !.opacity = (speedFactor(speed) * 550000) \div 350]]]

\* setSpeed(speed)
CfdSetSpeed(w, speed) ==
    [w EXCEPT !.cfd.speed = speed, !.cfd.speedDirty = TRUE]

\* setVisible(v)
CfdSetVisible(w, v) ==
    [w EXCEPT !.cfd.visible = v, !.cfd.group.visible = v]

\* setWingStall(isStalled)
CfdSetWingStall(w, isStalled) ==
    [w EXCEPT !.cfd.wingStalled = isStalled,
              !.cfd.lastBuiltSpeed = -10,
              !.cfd.speedDirty = TRUE]

\* the same test without Math.abs
CfdColorStaleSigned(c) == c.speedDirty /\ c.speed - c.lastBuiltSpeed > 50

\* update(): this._speedDirty && Math.abs(this._speed - this._lastBuiltSpeed) > 5
CfdColorStale(c) == c.speedDirty /\ Abs(c.speed - c.lastBuiltSpeed) > 50

\* the same Cp without the branch for a stalled rear-wing patch
CfdVertexCpFlowOnly(p, probe, sf, isRearStalled, noise) ==
    LET xi == IF p.w > 0 THEN ((2 * probe.i - SEG) * 1000) \div SEG ELSE 0
        eta == IF p.h > 0 THEN ((2 * probe.j - SEG) * 1000) \div SEG ELSE 0
        v == topViewVelocity((xi * 12) \div 10 + 10, (eta * 12) \div 10 + 10)
    IN  pressureCoeff((v.vxi * sf) \div 350, (v.veta * sf) \div 350)
            - (1000 - (sf * 1000) \div 350)

\* _updatePatchColors: the Cp of the vertex (probe) of patch p
CfdVertexCp(p, probe, sf, isRearStalled, noise) ==
    IF isRearStalled THEN 0 + noise
    ELSE LET xi == IF p.w > 0 THEN ((2 * probe.i - SEG) * 1000) \div SEG ELSE 0
             eta == IF p.h > 0 THEN ((2 * probe.j - SEG) * 1000) \div SEG ELSE 0
             v == topViewVelocity((xi * 12) \div 10 + 10, (eta * 12) \div 10 + 10)
         IN  pressureCoeff((v.vxi * sf) \div 350, (v.veta * sf) \div 350)
                 - (1000 - (sf * 1000) \div 350)

\* _updatePatchColors(speedFactor); noise[v] is the value rnd() returns for
\* vertex v of the stalled rear-wing patch
CfdUpdatePatchColors(c, sf, noise) ==
    LET patches == CfdPatchDefs(c.type)
        recolor(k) ==
            LET p == patches[k]
                isRearStalled == c.wingStalled /\ p.role = "rearWing"
            IN  [c.patchMeshes[k] EXCEPT
                    !.colors = [v \in DOMAIN PatchProbes |->
                                   cpToColor(CfdVertexCp(p, PatchProbes[v], sf,
                                                         isRearStalled, noise[v]))],
                    !.opacity = (sf * 550000) \div 350]
    IN  [c EXCEPT !.patchMeshes =
            [k \in DOMAIN c.patchMeshes |->
                IF k \in DOMAIN patches THEN recolor(k) ELSE c.patchMeshes[k]]]

\* update(): the zone-blob loop.  Intensity in 2000ths; effectiveR is computed
\* by the code and never used.
CfdAnimateBlobs(c, sf, t) ==
    LET blobs == CfdBlobDefs(c.type)
        anim(k) ==
            LET blob == blobs[k]
                stalledRear == c.wingStalled /\ blob.role = "rearWing"
                effectiveIntensity ==
                    IF stalledRear THEN blob.intensity * 3 ELSE blob.intensity * 20
                s == (sf * sf * effectiveIntensity) \div 980
                sn == Sin10(t + blob.phase)
            IN  [c.blobMeshes[k] EXCEPT
                    !.scale = (s * (80 + 2 * sn)) \div 100,
                    !.opacity = (sf * effectiveIntensity * 11 * (30 + sn)) \div 560]
    IN  [c EXCEPT !.blobMeshes =
            [k \in DOMAIN c.blobMeshes |->
                IF k \in DOMAIN blobs THEN anim(k) ELSE c.blobMeshes[k]]]

\* update(): the vortex-core loop.  The 60 spiral points are a function of the
\* definition, r = speedFactor * 0.28 and t, kept as <<r, t>>.
CfdAnimateVortexCores(c, sf, t) ==
    LET vDefs == CfdVortexDefs(c.type)
    IN  [c EXCEPT !.vortexLines =
            [k \in DOMAIN c.vortexLines |->
                IF k \in DOMAIN vDefs
                THEN [c.vortexLines[k] EXCEPT !.pos = <<sf * 800, t>>,
                                              !.opacity = (sf * 650000) \div 350]
                ELSE c.vortexLines[k]]]

\* update(dt, t)
CfdUpdate(w, dt, t, noise) ==
    IF ~w.cfd.visible THEN w
    ELSE LET c == w.cfd
             sf == speedFactor(c.speed)
             c1 == IF CfdColorStale(c)
                   THEN [CfdUpdatePatchColors(c, sf, noise) EXCEPT
                            !.lastBuiltSpeed = c.speed, !.speedDirty = FALSE]
                   ELSE c
             c2 == CfdAnimateBlobs(c1, sf, t)
         IN  [w EXCEPT !.cfd = CfdAnimateVortexCores(c2, sf, t)]

\* dispose()
CfdDispose(w) ==
    LET w1 == CfdDisposeAll(w)
    IN  [w1 EXCEPT !.scene = @ \ {"cfd"}]

----------------------------------------------------------------------------
(* effects.js: static definitions *)

\* streamColor(cp), cp and channels in thousandths
streamColor(cp) ==
    LET t == Max(0, Min(1000, (cp + 3000) \div 4))
    IN  [r |-> 200 + (800 * t) \div 1000,
         g |-> 700 + (300 * t) \div 1000,
         b |-> 1000 - (550 * t) \div 1000]

STEPS == 200
STEP_SIZE == 140      \* 0.14
SMOKE_PTS == 60

\* Per-car aerodynamic profiles; lengths in thousandths
CAR_AERO ==
    [ F1 |-> [
        halfW |-> 900, halfL |-> 2450, halfH |-> 550,
        topSeeds |-> <<-2800, -2200, -1600, -1000, -400, 400, 1000, 1600, 2200, 2800>>,
        sideHeights |-> <<-120, 50, 200, 380, 580, 780, 1000, 1220, 1450, 1650>>,
        underSeeds |-> <<-450, -250, -80, 80, 250, 450>>, underY |-> -40,
        farSeeds |-> <<-4500, -3500, -2500, 2500, 3500, 4500>>,
        fwSeeds |-> <<-1400, -900, -400, 400, 900, 1400>>, fwY |-> 40, fwEta |-> -2600,
        vortexDefs |-> <<
            [wx |-> -820, wy |-> 20, wz |-> -2600, sign |-> 1, gamma |-> 600, rc |-> 120],
            [wx |-> 820, wy |-> 20, wz |-> -2600, sign |-> -1, gamma |-> 600, rc |-> 120],
            [wx |-> -900, wy |-> 850, wz |-> 1850, sign |-> -1, gamma |-> 1000, rc |-> 180],
            [wx |-> 900, wy |-> 850, wz |-> 1850, sign |-> 1, gamma |-> 1000, rc |-> 180],
            [wx |-> -880, wy |-> -50, wz |-> 500, sign |-> 1, gamma |-> 400, rc |-> 100],
            [wx |-> 880, wy |-> -50, wz |-> 500, sign |-> -1, gamma |-> 400, rc |-> 100] >>,
        vortexMaxRadius |-> 400, wakeWidthX |-> 1000,
        wakeHeightRange |-> <<-100, 1200>>, wakeCount |-> 220,
        strouhal |-> 210 ],
      F2 |-> [
        halfW |-> 820, halfL |-> 2200, halfH |-> 500,
        topSeeds |-> <<-2800, -2000, -1400, -800, -300, 300, 800, 1400, 2000, 2800>>,
        sideHeights |-> <<-100, 50, 200, 360, 550, 720, 920, 1120, 1320, 1500>>,
        underSeeds |-> <<-400, -220, -70, 70, 220, 400>>, underY |-> -30,
        farSeeds |-> <<-4500, -3500, -2500, 2500, 3500, 4500>>,
        fwSeeds |-> <<-1300, -800, -300, 300, 800, 1300>>, fwY |-> 40, fwEta |-> -2360,
        vortexDefs |-> <<
            [wx |-> -770, wy |-> 20, wz |-> -2360, sign |-> 1, gamma |-> 500, rc |-> 100],
            [wx |-> 770, wy |-> 20, wz |-> -2360, sign |-> -1, gamma |-> 500, rc |-> 100],
            [wx |-> -860, wy |-> 760, wz |-> 1700, sign |-> -1, gamma |-> 800, rc |-> 160],
            [wx |-> 860, wy |-> 760, wz |-> 1700, sign |-> 1, gamma |-> 800, rc |-> 160] >>,
        vortexMaxRadius |-> 300, wakeWidthX |-> 1000,
        wakeHeightRange |-> <<-100, 1000>>, wakeCount |-> 190,
        strouhal |-> 200 ],
      F3 |-> [
        halfW |-> 720, halfL |-> 1900, halfH |-> 440,
        topSeeds |-> <<-2600, -1900, -1300, -700, -200, 200, 700, 1300, 1900, 2600>>,
        sideHeights |-> <<-100, 50, 180, 320, 480, 640, 800, 960, 1100, 1250>>,
        underSeeds |-> <<-300, -150, -50, 50, 150, 300>>, underY |-> -20,
        farSeeds |-> <<-4000, -3000, -2200, 2200, 3000, 4000>>,
        fwSeeds |-> <<-1200, -700, -200, 200, 700, 1200>>, fwY |-> 40, fwEta |-> -2120,
        vortexDefs |-> <<
            [wx |-> -750, wy |-> 650, wz |-> 1550, sign |-> -1, gamma |-> 500, rc |-> 100],
            [wx |-> 750, wy |-> 650, wz |-> 1550, sign |-> 1, gamma |-> 500, rc |-> 100] >>,
        vortexMaxRadius |-> 200, wakeWidthX |-> 800,
        wakeHeightRange |-> <<-100, 900>>, wakeCount |-> 150,
        strouhal |-> 190 ],
      GT |-> [
        halfW |-> 1050, halfL |-> 2400, halfH |-> 650,
        topSeeds |-> <<-2800, -2000, -1400, -800, -300, 300, 800, 1400, 2000, 2800>>,
        sideHeights |-> <<-80, 100, 280, 460, 640, 820, 1000, 1160, 1300, 1480>>,
        underSeeds |-> <<-350, -180, -60, 60, 180, 350>>, underY |-> -70,
        farSeeds |-> <<-4500, -3500, -2500, 2500, 3500, 4500>>,
        fwSeeds |-> <<>>, fwY |-> 0, fwEta |-> 0,
        vortexDefs |-> <<
            [wx |-> -860, wy |-> 720, wz |-> 1800, sign |-> -1, gamma |-> 800, rc |-> 140],
            [wx |-> 860, wy |-> 720, wz |-> 1800, sign |-> 1, gamma |-> 800, rc |-> 140],
            [wx |-> -930, wy |-> 120, wz |-> 1600, sign |-> 1, gamma |-> 500, rc |-> 100],
            [wx |-> 930, wy |-> 120, wz |-> 1600, sign |-> -1, gamma |-> 500, rc |-> 100] >>,
        vortexMaxRadius |-> 280, wakeWidthX |-> 1500,
        wakeHeightRange |-> <<-80, 1000>>, wakeCount |-> 250,
        strouhal |-> 220 ] ]

\* getProfile(type) = CAR_AERO[type] || CAR_AERO.F1
getProfile(type) ==
    IF type \in DOMAIN CAR_AERO THEN CAR_AERO[type]
    ELSE IF type \in Inherited THEN ObjectMember ELSE CAR_AERO["F1"]

Seed(xi, eta, y, grp, p) ==
    [seedXi |-> xi, seedEta |-> eta, y |-> y, group |-> grp, halfH |-> p.halfH]

\* _buildSeedList(p)
buildSeedList(p) ==
    LET top == [n \in 1..(2 * Len(p.topSeeds)) |->
                   Seed(p.topSeeds[(n + 1) \div 2], -8000,
                        IF n % 2 = 1 THEN 380 ELSE 700, "top", p)]
        side == [n \in 1..Len(p.sideHeights) |->
                   Seed(10, -8000, p.sideHeights[n], "side", p)]
        under == [n \in 1..Len(p.underSeeds) |->
                   Seed(p.underSeeds[n], -8000, p.underY, "under", p)]
        far == [n \in 1..Len(p.farSeeds) |->
                   Seed(p.farSeeds[n], -8000, 380, "far", p)]
        fw == [n \in 1..Len(p.fwSeeds) |->
                   Seed(p.fwSeeds[n], p.fwEta - 1000, p.fwY, "fw", p)]
    IN  top \o side \o under \o far \o fw

\* The seed points of all profiles, as <<seedXi, seedEta>>
SeedPoints ==
    UNION { LET sl == buildSeedList(CAR_AERO[ty])
            IN  {<<sl[n].seedXi, sl[n].seedEta>> : n \in DOMAIN sl}
            : ty \in DOMAIN CAR_AERO }

\* traceStreamlinePath(s.seedXi, s.seedEta, STEPS, STEP_SIZE) for every seed
\* point: the value this._seeds.map(...) stores for a seed at that point
TracedPath ==
    [pt \in SeedPoints |-> traceStreamlinePath(pt[1], pt[2], STEPS, STEP_SIZE)]

----------------------------------------------------------------------------
(* effects.js: AirflowEffect *)

\* _paths[s]: the sample points of the path traced from `from`
PathPoints(path) == TracedPath[path.from]

\* The placeholder _buildSmokeGuides() pushes for a path shorter than 2
NoLine == Prim("airflow", "null", "", 0)

\* _verticalDelta(eta, y, scale = 0.10), in thousandths
AirflowVerticalDelta(af, eta, y) ==
    LET etaN == (eta * 1000) \div Max(af.halfL, 100)
        yN == (y * 1000) \div Max(af.halfH, 100)
    IN  sideViewVelocity(etaN, yN).vy \div 10

\* _buildSmokeGuides(): one line per path of at least 2 points, opacity 0
AirflowBuildSmokeGuides(af) ==
    [s \in 1..Len(af.seeds) |->
        IF Len(PathPoints(af.paths[s])) < 2
        THEN [id |-> NoLine, opacity |-> 0]
        ELSE [id |-> Prim("airflow", "guide", af.type, s), opacity |-> 0]]

\* _buildSmokeParticles(): seeds.length * SMOKE_PTS particles; particle
\* s * SMOKE_PTS + k rides path s and starts at (k / SMOKE_PTS) * (pathLen - 1).
\* T in thousandths of a path index; jitter in millionths.
AirflowBuildSmokeParticles(af) ==
    LET total == Len(af.seeds) * SMOKE_PTS
        s == SmokeProbe \div SMOKE_PTS
        k == SmokeProbe % SMOKE_PTS
        pathLen == Len(PathPoints(af.paths[s + 1]))
    IN  [id |-> Prim("airflow", "smoke", af.type, 0),
         opacity |-> 0,
         total |-> total,
         seedIdx |-> s,
         T |-> (k * 1000 * (pathLen - 1)) \div SMOKE_PTS,
         Jx |-> 0, Jy |-> 0, Jz |-> 0, YAcc |-> 0,
         pos |-> <<0, 0, 0>>, col |-> [r |-> 0, g |-> 0, b |-> 0]]

\* _buildVortexSpirals(vortexDefs): one line per definition, opacity 0,
\* VORTEX_PTS points all zero (pos = <<>>)
AirflowBuildVortexSpirals(af, vortexDefs) ==
    [k \in 1..Len(vortexDefs) |->
        [id |-> Prim("airflow", "vortex", af.type, k), opacity |-> 0,
         def |-> vortexDefs[k], pos |-> <<>>]]

\* _buildWakeParticles(count): u is the stream of Math.random() values drawn
\* for particle WakeProbe (z, x, y, vx, vy, vz, phase, in that order).
\* Positions in thousandths, velocities in thousandths per second, phase in
\* tenths of a radian.
AirflowBuildWakeParticles(af, count, u) ==
    LET hMin == af.wakeHeightRange[1]
        hMax == af.wakeHeightRange[2]
        side == IF WakeProbe % 2 = 0 THEN 1 ELSE -1
    IN  [id |-> Prim("airflow", "wake", af.type, 0),
         opacity |-> 0,
         count |-> count,
         pos |-> [x |-> rnd(-af.wakeWidthX, af.wakeWidthX, u[1]),
                  y |-> rnd(hMin, hMax, u[2]),
                  z |-> rnd(2200, 8000, u[0])],
         vel |-> [vx |-> side * rnd(200, 900, u[3]),
                  vy |-> rnd(-150, 200, u[4]),
                  vz |-> rnd(600, 2800, u[5]),
                  phase |-> rnd(0, 63, u[6])]]

\* _build(profile), up to the paths
AirflowBuildPaths(af, profile) ==
    Eval(buildSeedList(profile), LAMBDA seeds :
        [af EXCEPT
            !.halfW = profile.halfW,
            !.halfL = profile.halfL,
            !.halfH = profile.halfH,
            !.vortexMaxRadius = profile.vortexMaxRadius,
            !.wakeWidthX = profile.wakeWidthX,
            !.wakeHeightRange = profile.wakeHeightRange,
            !.strouhal = IF profile.strouhal = 0 THEN 200 ELSE profile.strouhal,
            !.seeds = seeds,
            !.paths = [s \in 1..Len(seeds) |->
                          [from |-> <<seeds[s].seedXi, seeds[s].seedEta>>]]])

\* _build(profile), the four builders; each adds what it creates to the group
AirflowBuildPrimitives(af, profile, u) ==
    Eval(<<AirflowBuildSmokeGuides(af), AirflowBuildSmokeParticles(af),
           AirflowBuildVortexSpirals(af, profile.vortexDefs),
           AirflowBuildWakeParticles(af, profile.wakeCount, u)>>, LAMBDA b :
        [af EXCEPT !.guideLines = b[1],
                   !.smoke = b[2],
                   !.vortexLines = b[3],
                   !.wake = b[4],
                   !.group.children =
                       @ \cup (Ids(b[1]) \ {NoLine}) \cup {b[2].id}
                         \cup Ids(b[3]) \cup {b[4].id}])

\* _build(profile) with an inherited member as the profile: the fields read
\* from it are undefined (empty here, as in AirflowFields), strouhal is the
\* default 0.20, and `for (const xi of p.topSeeds)` in _buildSeedList throws;
\* the seeds, paths and particle arrays are still those of the previous type
AirflowBuildNoProfile(w) ==
    Raise([w EXCEPT !.airflow.halfW = 0,
                    !.airflow.halfL = 0,
                    !.airflow.halfH = 0,
                    !.airflow.vortexMaxRadius = 0,
                    !.airflow.wakeWidthX = 0,
                    !.airflow.wakeHeightRange = <<0, 0>>,
                    !.airflow.strouhal = 200],
          "TypeError: p.topSeeds is not iterable")

\* _build(profile); u is the Math.random() stream of _buildWakeParticles
AirflowBuild(w, profile, u) ==
    IF profile = ObjectMember THEN AirflowBuildNoProfile(w) ELSE
    Eval(AirflowBuildPaths(w.airflow, profile), LAMBDA af1 :
    Eval(AirflowBuildPrimitives(af1, profile, u), LAMBDA af2 :
        [w EXCEPT !.airflow = af2,
                  !.gpu = GpuAlloc(@, af2.group.children \ af1.group.children)]))

\* _disposeAll(): dispose and remove every child of the group
AirflowDisposeAll(w) ==
    [w EXCEPT !.gpu = GpuDispose(@, w.airflow.group.children),
              !.airflow.group.children = {}]

\* The fields the constructor sets before _build(getProfile('F1')); the
\* fields _build assigns are still undefined (empty here)
AirflowFields ==
    [speed |-> 0, visible |-> FALSE, type |-> "F1", time |-> 0,
     halfW |-> 0, halfL |-> 0, halfH |-> 0, vortexMaxRadius |-> 0,
     wakeWidthX |-> 0, wakeHeightRange |-> <<0, 0>>, strouhal |-> 0,
     seeds |-> <<>>, paths |-> <<>>, guideLines |-> <<>>,
     smoke |-> <<>>, vortexLines |-> <<>>, wake |-> <<>>,
     group |-> [visible |-> TRUE, children |-> {}]]

\* constructor(scene)
AirflowConstruct(w, u) ==
    LET w1 == [w EXCEPT !.scene = @ \cup {"airflow"}, !.airflow = AirflowFields]
        w2 == AirflowBuild(w1, getProfile("F1"), u)
    IN  [w2 EXCEPT !.airflow.group.visible = FALSE]

\* setCarType(type)
AirflowSetCarType(w, type, u) ==
    IF w.airflow.type = type THEN w
    ELSE LET w1 == [w EXCEPT !.airflow.type = type]
             w2 == AirflowDisposeAll(w1)
         IN  Eval(AirflowBuild(w2, getProfile(type), u), LAMBDA w3 :
                 IF w3.host.fault # "none" THEN w3
                 ELSE [w3 EXCEPT !.airflow.group.visible = w3.airflow.visible])

\* setSpeed(speed)
AirflowSetSpeed(w, speed) == [w EXCEPT !.airflow.speed = speed]

\* setVisible that stores the flag and leaves the group as it is
AirflowSetVisibleFlagOnly(w, v) == [w EXCEPT !.airflow.visible = v]

\* setVisible(v)
AirflowSetVisible(w, v) ==
    [w EXCEPT !.airflow.visible = v, !.airflow.group.visible = v]

\* The advance of _smokeT with a restart that keeps the jitter and the
\* vertical offset
SmokeAdvanceKeepJitter(sm, path, sf, dt) ==
    LET ptNow == path[Min(sm.T \div 1000, Len(path) - 1) + 1]
        localSpeed == Sqrt(ptNow.vxi * ptNow.vxi + ptNow.veta * ptNow.veta)
    IN  Eval(sm.T + (dt * sf * 9 * Max(400, Min(localSpeed, 3200))) \div 7000,
             LAMBDA T1 :
                IF T1 >= (Len(path) - 1) * 1000
                THEN [sm EXCEPT !.T = 0]
                ELSE [sm EXCEPT !.T = T1])

\* update(), smoke loop: advance _smokeT by dt * advRate * the clamped local
\* speed; at the end of the path the particle restarts with its jitter and
\* vertical offset cleared
SmokeAdvance(sm, path, sf, dt) ==
    LET ptNow == path[Min(sm.T \div 1000, Len(path) - 1) + 1]
        localSpeed == Sqrt(ptNow.vxi * ptNow.vxi + ptNow.veta * ptNow.veta)
    IN  Eval(sm.T + (dt * sf * 9 * Max(400, Min(localSpeed, 3200))) \div 7000,
             LAMBDA T1 :
                IF T1 >= (Len(path) - 1) * 1000
                THEN [sm EXCEPT !.T = 0, !.Jx = 0, !.Jy = 0, !.Jz = 0, !.YAcc = 0]
                ELSE [sm EXCEPT !.T = T1])

\* update(), smoke loop: the flow point at progress T, interpolated between
\* the two samples around it
SmokeSample(path, T) ==
    LET ptA == path[Min(T \div 1000, Len(path) - 1) + 1]
        ptB == path[Min(T \div 1000 + 1, Len(path) - 1) + 1]
        mix(a, b) == a + ((b - a) * (T % 1000)) \div 1000
    IN  [xi |-> mix(ptA.xi, ptB.xi), eta |-> mix(ptA.eta, ptB.eta),
         vxi |-> mix(ptA.vxi, ptB.vxi), veta |-> mix(ptA.veta, ptB.veta)]

\* J * jDecay + (Math.random() * 2 - 1) * amp, in millionths
SmokeJitter(J, rand, amp) == (J * 9) \div 10 + ((2 * rand - 1000) * amp) \div 1000

\* update(), smoke loop: vertical offset, jitter, position and colour of the
\* particle at flow point q; u[0..2] are its three Math.random() values
SmokePlace(af, sm, q, sf, u) ==
    LET y0 == af.seeds[sm.seedIdx + 1].y
        YAcc1 == sm.YAcc + AirflowVerticalDelta(af, q.eta, y0 + sm.YAcc \div 1000) * 50
        normFrac == Max(0, Min(1000, (q.eta - 1000) \div 7))
        jitterAmp == (6 * sf * (1000 + 4 * normFrac)) \div 350
    IN  Eval(<<YAcc1, SmokeJitter(sm.Jx, u[0], jitterAmp),
               SmokeJitter(sm.Jy, u[1], (jitterAmp * 4) \div 10),
               SmokeJitter(sm.Jz, u[2], jitterAmp)>>, LAMBDA n :
            [sm EXCEPT !.YAcc = n[1], !.Jx = n[2], !.Jy = n[3], !.Jz = n[4],
                       !.pos = <<q.xi * af.halfW + n[2],
                                 y0 * 1000 + n[1] + n[3],
                                 q.eta * af.halfL + n[4]>>,
                       !.col = streamColor(pressureCoeff(q.vxi, q.veta))])

\* update(): the smoke loop, for particle SmokeProbe
AirflowAdvanceSmoke(af, sf, dt, u) ==
    Eval(PathPoints(af.paths[af.smoke.seedIdx + 1]), LAMBDA path :
        IF Len(path) < 2 THEN af.smoke
        ELSE Eval(SmokeAdvance(af.smoke, path, sf, dt), LAMBDA sm1 :
             Eval(SmokeSample(path, sm1.T), LAMBDA q :
                 SmokePlace(af, sm1, q, sf, u))))

\* The vortex-spiral loop with the spirals shown from 30 km/h on
AirflowAnimateVortexSpiralsFrom30(af, sf, time) ==
    LET vortexRadius == (sf * sf * af.vortexMaxRadius * 2) \div 245
        vortexVisible == af.speed >= 300
        sheddingPhase ==
            (((time * af.strouhal * af.speed) \div 10) * 436) \div (af.halfW * 1000)
    IN  [k \in DOMAIN af.vortexLines |->
            [af.vortexLines[k] EXCEPT
                !.opacity = IF vortexVisible THEN (sf * 800000) \div 350 ELSE 0,
                !.pos = [r |-> vortexRadius, phase |-> sheddingPhase]]]

\* update(): the vortex-spiral loop.  The VORTEX_PTS points of a spiral are a
\* function of its definition, vortexRadius (in millionths) and
\* sheddingPhase (in tenths of a radian), kept as pos.
AirflowAnimateVortexSpirals(af, sf, time) ==
    LET vortexRadius == (sf * sf * af.vortexMaxRadius * 2) \div 245
        vortexVisible == af.speed > 300
        sheddingPhase ==
            (((time * af.strouhal * af.speed) \div 10) * 436) \div (af.halfW * 1000)
    IN  [k \in DOMAIN af.vortexLines |->
            [af.vortexLines[k] EXCEPT
                !.opacity = IF vortexVisible THEN (sf * 800000) \div 350 ELSE 0,
                !.pos = [r |-> vortexRadius, phase |-> sheddingPhase]]]

\* The wake loop without the re-seeding of particles that leave the window
AirflowAdvanceWakeNoRecycle(af, sf, dt, t, u) ==
    LET wk == af.wake
        kt == (((af.strouhal * sf) \div 35) * t * 12566) \div 10000000
        karmanLateral == (Sin10(kt + wk.vel.phase) * 60 * sf) \div 350
        x1 == wk.pos.x + (((wk.vel.vx * sf) \div 350 + karmanLateral) * dt) \div 20
        y1 == wk.pos.y + (wk.vel.vy * dt * sf) \div 7000
        z1 == wk.pos.z + (wk.vel.vz * dt * sf) \div 7000
    IN  [wk EXCEPT
            !.opacity = (sf * 700000) \div 350,
            !.pos = [x |-> x1, y |-> y1, z |-> z1]]

\* The wake loop with an opacity of speedFactor squared times 0.70
AirflowAdvanceWakeSquared(af, sf, dt, t, u) ==
    LET wk == af.wake
        hMin == af.wakeHeightRange[1]
        hMax == af.wakeHeightRange[2]
        kt == (((af.strouhal * sf) \div 35) * t * 12566) \div 10000000
        karmanLateral == (Sin10(kt + wk.vel.phase) * 60 * sf) \div 350
        x1 == wk.pos.x + (((wk.vel.vx * sf) \div 350 + karmanLateral) * dt) \div 20
        y1 == wk.pos.y + (wk.vel.vy * dt * sf) \div 7000
        z1 == wk.pos.z + (wk.vel.vz * dt * sf) \div 7000
        side == IF WakeProbe % 2 = 0 THEN 1 ELSE -1
    IN  [wk EXCEPT
            !.opacity = (sf * sf * 700000) \div 122500,
            !.pos = IF z1 > 9000 \/ z1 < 2000
                    THEN [x |-> side * rnd(100, (af.wakeWidthX * 7) \div 10, u[3]),
                          y |-> rnd(hMin, hMax, u[4]),
                          z |-> rnd(2200, 4000, u[5])]
                    ELSE [x |-> x1, y |-> y1, z |-> z1]]

\* update(): the wake loop, for particle WakeProbe; u[3..5] are the three
\* Math.random() values of a re-seed
AirflowAdvanceWake(af, sf, dt, t, u) ==
    LET wk == af.wake
        hMin == af.wakeHeightRange[1]
        hMax == af.wakeHeightRange[2]
        kt == (((af.strouhal * sf) \div 35) * t * 12566) \div 10000000
        karmanLateral == (Sin10(kt + wk.vel.phase) * 60 * sf) \div 350
        x1 == wk.pos.x + (((wk.vel.vx * sf) \div 350 + karmanLateral) * dt) \div 20
        y1 == wk.pos.y + (wk.vel.vy * dt * sf) \div 7000
        z1 == wk.pos.z + (wk.vel.vz * dt * sf) \div 7000
        side == IF WakeProbe % 2 = 0 THEN 1 ELSE -1
    IN  [wk EXCEPT
            !.opacity = (sf * 700000) \div 350,
            !.pos = IF z1 > 9000 \/ z1 < 2000
                    THEN [x |-> side * rnd(100, (af.wakeWidthX * 7) \div 10, u[3]),
                          y |-> rnd(hMin, hMax, u[4]),
                          z |-> rnd(2200, 4000, u[5])]
                    ELSE [x |-> x1, y |-> y1, z |-> z1]]

\* update(dt, t), past the visibility test
AirflowUpdateVisible(w, dt, t, u) ==
    LET af == [w.airflow EXCEPT !.time = @ + dt]
        sf == speedFactor(af.speed)
    IN  [w EXCEPT !.airflow =
           [af EXCEPT
               !.guideLines =
                   [s \in DOMAIN af.guideLines |->
                       IF af.guideLines[s].id = NoLine THEN af.guideLines[s]
                       ELSE [af.guideLines[s] EXCEPT
                                !.opacity = (sf * 550000) \div 350]],
               !.smoke = [AirflowAdvanceSmoke(af, sf, dt, u) EXCEPT
                             !.opacity = (sf * 880000) \div 350],
               !.vortexLines = AirflowAnimateVortexSpirals(af, sf, af.time),
               !.wake = AirflowAdvanceWake(af, sf, dt, t, u)]]

\* update that advances the clock before it tests the visibility
AirflowUpdateClockFirst(w, dt, t, u) ==
    IF ~w.airflow.visible THEN [w EXCEPT !.airflow.time = @ + dt]
    ELSE AirflowUpdateVisible(w, dt, t, u)

\* update(dt, t)
AirflowUpdate(w, dt, t, u) ==
    IF ~w.airflow.visible THEN w ELSE AirflowUpdateVisible(w, dt, t, u)

\* dispose()
AirflowDispose(w) == [w EXCEPT !.scene = @ \ {"airflow"}]

----------------------------------------------------------------------------
(* main.js: the host script *)

Effects == {"airflow", "rain", "optimal", "cfd"}

\* The methods of the classes the host instantiates
Methods(e) ==
    CASE e = "airflow" -> {"setSpeed", "setVisible", "setCarType", "update", "dispose"}
      [] e = "cfd" -> {"setSpeed", "setVisible", "setCarType", "update", "dispose",
                       "setWingStall"}
      [] OTHER -> {"setSpeed", "setVisible", "update", "dispose"}

\* class EffectStub
StubMethods ==
    {"setSpeed", "setVisible", "setCarType", "update", "dispose", "setWingStall"}

\* The fields of RainEffect and OptimalWeatherEffect that the host drives
WeatherFields == [speed |-> 0, visible |-> FALSE]

\* lerpSpeed without the clamp of the step to |diff|
lerpSpeedUnclamped(cur, tgt, accelUp, accelDown, dt) ==
    LET diff == tgt - cur
        accel == IF diff > 0 THEN accelUp ELSE accelDown
        step == (accel * dt) \div 20
    IN  IF Abs(diff) <= 5 THEN tgt
        ELSE IF diff > 0 THEN cur + step ELSE cur - step

\* lerpSpeed(cur, tgt, accelUp, accelDown, dt): speeds in tenths of km/h,
\* accelerations in tenths of km/h per second, dt in ticks of 1/20 s
lerpSpeed(cur, tgt, accelUp, accelDown, dt) ==
    LET diff == tgt - cur
        accel == IF diff > 0 THEN accelUp ELSE accelDown
        step == Min((accel * dt) \div 20, Abs(diff))
    IN  IF Abs(diff) <= 5 THEN tgt
        ELSE IF diff > 0 THEN cur + step ELSE cur - step

\* A statement of a handler: skipped once the handler has thrown
Stmt(w, F(_)) == IF w.host.fault # "none" THEN w ELSE F(w)

\* e.op(...): nothing on a stub, a TypeError when the object has no such
\* method, the method F otherwise
Invoke(w, e, op, F(_)) ==
    IF w.host.fault # "none" THEN w
    ELSE IF w.bound[e] = "stub" THEN w
    ELSE IF op \notin Methods(e)
         THEN [w EXCEPT !.host.fault = "TypeError: " \o e \o "." \o op
                                          \o " is not a function"]
    ELSE F(w)

\* let airflow, rain, optimal, cfd: each constructor in its own try/catch; a
\* constructor in `failing` throws on entry and an EffectStub is bound
HostConstruct(w, failing, u) ==
    LET new(x, e, F(_)) ==
            IF e \in failing THEN [x EXCEPT !.bound[e] = "stub"]
            ELSE [F(x) EXCEPT !.bound[e] = "real"]
        weather(x, e) ==
            [x EXCEPT ![e] = WeatherFields,
                      !.scene = @ \cup {e}]
        w1 == new(w, "airflow", LAMBDA x : AirflowConstruct(x, u))
        w2 == new(w1, "rain", LAMBDA x : weather(x, "rain"))
        w3 == new(w2, "optimal", LAMBDA x : weather(x, "optimal"))
    IN  new(w3, "cfd", LAMBDA x : CfdConstruct(x))

\* spawnCar(type): every car has a rearWing group
HostResetWing(w) ==
    [w EXCEPT !.host.wingFlipped = FALSE,
              !.host.wingFlipping = FALSE,
              !.host.wingFlipT = 0,
              !.host.rearWingRot = 0]

spawnCar(w, type, u) ==
    LET w1 == Stmt(w, LAMBDA x : [x EXCEPT !.host.carBuilt = type])
        w2 == Invoke(w1, "airflow", "setCarType",
                     LAMBDA x : AirflowSetCarType(x, type, u))
        w3 == Invoke(w2, "cfd", "setCarType", LAMBDA x : CfdSetCarType(x, type))
        w4 == Stmt(w3, LAMBDA x : HostResetWing(x))
        w5 == Invoke(w4, "airflow", "setWingStall", LAMBDA x : x)
    IN  Invoke(w5, "cfd", "setWingStall", LAMBDA x : CfdSetWingStall(x, FALSE))

WeatherSetSpeed(w, e, sp) == [w EXCEPT ![e].speed = sp]

WeatherSetVisible(w, e, v) == [w EXCEPT ![e].visible = v]

\* syncEffects()
syncEffects(w) ==
    LET sp == w.host.speed
        on(e) == e \in w.host.activeEnvs
        w1 == Invoke(w, "airflow", "setSpeed", LAMBDA x : AirflowSetSpeed(x, sp))
        w2 == Invoke(w1, "rain", "setSpeed", LAMBDA x : WeatherSetSpeed(x, "rain", sp))
        w3 == Invoke(w2, "optimal", "setSpeed",
                     LAMBDA x : WeatherSetSpeed(x, "optimal", sp))
        w4 == Invoke(w3, "cfd", "setSpeed", LAMBDA x : CfdSetSpeed(x, sp))
        w5 == Invoke(w4, "airflow", "setVisible",
                     LAMBDA x : AirflowSetVisible(x, on("airflow")))
        w6 == Invoke(w5, "rain", "setVisible",
                     LAMBDA x : WeatherSetVisible(x, "rain", on("rain")))
        w7 == Invoke(w6, "optimal", "setVisible",
                     LAMBDA x : WeatherSetVisible(x, "optimal", on("optimal")))
        w8 == Invoke(w7, "cfd", "setVisible", LAMBDA x : CfdSetVisible(x, on("cfd")))
    IN  Invoke(w8, "cfd", "setCarType",
               LAMBDA x : CfdSetCarType(x, x.host.carType))

\* ease(t) of animateCar, t in 16ths, in 1024ths
ease(k) == IF k < 8 THEN k * k * k ELSE 1024 - (16 - k) * (16 - k) * (16 - k)

\* animateCar(dt): the wing-flip animation; wingFlipT in 16ths (dt / 0.8 is
\* a 16th per tick), the wing's rotation in 1024ths of pi.  Wheels, brake
\* glow and body motion are not followed.
animateCar(w, dt) ==
    IF w.host.carBuilt = "none" \/ ~w.host.wingFlipping THEN w
    ELSE LET T == Min(16, w.host.wingFlipT + dt)
         IN  [w EXCEPT !.host.wingFlipT = T,
                       !.host.wingFlipping = T < 16,
                       !.host.rearWingRot =
                           IF w.host.wingFlipped THEN ease(T) ELSE 1024 - ease(T)]

\* try { e.update(dt, state.time) } catch (e) { console.error(...) }
\* thr says whether this update() throws, on entry or after its last
\* statement; what it threw is logged and dropped.  A stub's update() is empty.
RunUpdate(w, e, F(_), thr) ==
    Invoke(w, e, "update",
           LAMBDA x : IF thr = "entry" THEN [x EXCEPT !.host.fault = "Error"]
                      ELSE IF thr = "exit" THEN [F(x) EXCEPT !.host.fault = "Error"]
                      ELSE F(x))

\* The record of a frame: the effects whose update() was called, where an
\* update() threw, and whether the HUD was updated and the scene rendered
IdleFrame ==
    [called |-> {}, caught |-> [e \in Effects |-> "none"], presented |-> FALSE]

FrameLog(w, r, e, thr) ==
    [r EXCEPT !.host.frame.called = @ \cup {e},
              !.host.frame.caught[e] =
                  IF r.host.fault # "none" /\ w.host.fault = "none"
                  THEN thr ELSE "none"]

\* try { e.update(dt, state.time) } without its catch: the exception escapes
TryUpdateUncaught(w, e, F(_), thr) ==
    IF w.host.fault # "none" THEN w
    ELSE FrameLog(w, RunUpdate(w, e, F, thr), e, thr)

TryUpdate(w, e, F(_), thr) ==
    [FrameLog(w, RunUpdate(w, e, F, thr), e, thr) EXCEPT !.host.fault = "none"]

\* updateHUD(state.speed); composer.render()
HostPresent(w) ==
    IF w.host.fault # "none" THEN w ELSE [w EXCEPT !.host.frame.presented = TRUE]

\* animate() with the four update() calls outside any try
animateUncaught(w, dt, u, noise, thr) ==
    LET w1 == [w EXCEPT
                 !.host.frame = IdleFrame,
                 !.host.time = IF w.host.paused THEN @ ELSE @ + dt,
                 !.host.speed = lerpSpeed(@, w.host.targetSpeed, 600, 900, dt)]
        w2 == IF w.host.paused THEN w1 ELSE animateCar(w1, dt)
        t == w1.host.time
        w3 == TryUpdateUncaught(w2, "airflow",
                                LAMBDA x : AirflowUpdate(x, dt, t, u), thr["airflow"])
        w4 == TryUpdateUncaught(w3, "rain", LAMBDA x : x, thr["rain"])
        w5 == TryUpdateUncaught(w4, "optimal", LAMBDA x : x, thr["optimal"])
        w6 == TryUpdateUncaught(w5, "cfd",
                                LAMBDA x : CfdUpdate(x, dt, t, noise), thr["cfd"])
    IN  HostPresent(IF w.host.paused THEN w2 ELSE w6)

\* animate(): one frame.  Camera, track, HUD and rendering are not followed,
\* nor are the particles the two weather effects move in their update().
animate(w, dt, u, noise, thr) ==
    Eval([w EXCEPT
            !.host.frame = IdleFrame,
            !.host.time = IF w.host.paused THEN @ ELSE @ + dt,
            !.host.speed = lerpSpeed(@, w.host.targetSpeed, 600, 900, dt)],
         LAMBDA w1 :
    IF w.host.paused THEN HostPresent(w1)
    ELSE
    Eval(animateCar(w1, dt), LAMBDA w2 :
    Eval(TryUpdate(w2, "airflow",
                   LAMBDA x : AirflowUpdate(x, dt, w1.host.time, u),
                   thr["airflow"]), LAMBDA w3 :
    Eval(TryUpdate(w3, "rain", LAMBDA x : x, thr["rain"]), LAMBDA w4 :
    Eval(TryUpdate(w4, "optimal", LAMBDA x : x, thr["optimal"]), LAMBDA w5 :
    HostPresent(TryUpdate(w5, "cfd",
                          LAMBDA x : CfdUpdate(x, dt, w1.host.time, noise),
                          thr["cfd"])))))))

\* The script up to the UI wiring: an exception escaping spawnCar('F1') ends
\* it before animate() is called and before any handler is registered.  The
\* clock's first getDelta() is 0.
HostStart(w, u) ==
    IF w.host.fault # "none" THEN [w EXCEPT !.host.pc = "aborted"]
    ELSE [animate(w, 0, u, [v \in DOMAIN PatchProbes |-> 0],
                  [e \in Effects |-> "none"])
             EXCEPT !.host.pc = "running"]

\* car button
HostCarClick(w, type, u) ==
    IF type = w.host.carType THEN w
    ELSE syncEffects(spawnCar([w EXCEPT !.host.carType = type], type, u))

\* setSpeed(v): slider and preset buttons
HostSetSpeed(w, v) == syncEffects([w EXCEPT !.host.targetSpeed = v])

\* environment toggle
HostEnvToggle(w, env) ==
    syncEffects([w EXCEPT !.host.activeEnvs =
                    IF env \in @ THEN @ \ {env} ELSE @ \cup {env}])

\* the wing-stall button without `if (state.wingFlipping) return`
HostWingFlipRestart(w) ==
    LET flipped == ~w.host.wingFlipped
        w1 == [w EXCEPT !.host.wingFlipped = flipped,
                        !.host.wingFlipT = 0,
                        !.host.wingFlipping = TRUE]
        w2 == IF "airflow" \in w.host.activeEnvs
              THEN Invoke(w1, "airflow", "setWingStall", LAMBDA x : x)
              ELSE w1
    IN  IF "cfd" \in w.host.activeEnvs
        THEN Invoke(w2, "cfd", "setWingStall",
                    LAMBDA x : CfdSetWingStall(x, flipped))
        ELSE w2

\* wing-stall button
HostWingFlip(w) ==
    IF w.host.wingFlipping THEN w
    ELSE LET flipped == ~w.host.wingFlipped
             w1 == [w EXCEPT !.host.wingFlipped = flipped,
                             !.host.wingFlipT = 0,
                             !.host.wingFlipping = TRUE]
             w2 == IF "airflow" \in w.host.activeEnvs
                   THEN Invoke(w1, "airflow", "setWingStall", LAMBDA x : x)
                   ELSE w1
         IN  IF "cfd" \in w.host.activeEnvs
             THEN Invoke(w2, "cfd", "setWingStall",
                         LAMBDA x : CfdSetWingStall(x, flipped))
             ELSE w2

\* play / pause button
HostPause(w) == [w EXCEPT !.host.paused = ~@]

\* reset button
HostReset(w) ==
    LET w1 == HostSetSpeed(w, 0)
        w2 == Stmt(w1, LAMBDA x :
                  HostResetWing([x EXCEPT !.host.paused = FALSE,
                                          !.host.activeEnvs = {}]))
        w3 == Invoke(w2, "airflow", "setWingStall", LAMBDA x : x)
        w4 == Invoke(w3, "cfd", "setWingStall", LAMBDA x : CfdSetWingStall(x, FALSE))
    IN  syncEffects(w4)

----------------------------------------------------------------------------
(* The objects under arbitrary sequences of calls *)

World ==
    [cfd |-> cfd, airflow |-> airflow, scene |-> scene, gpu |-> gpu,
     host |-> host, bound |-> bound, rain |-> rain, optimal |-> optimal,
     flow |-> flow]

Apply(w) ==
    /\ cfd' = w.cfd
    /\ airflow' = w.airflow
    /\ scene' = w.scene
    /\ gpu' = w.gpu
    /\ host' = w.host
    /\ bound' = w.bound
    /\ rain' = w.rain
    /\ optimal' = w.optimal
    /\ flow' = w.flow

\* const state = { ... }, before the script has run
HostFields ==
    [pc |-> "load", carType |-> "F1", carBuilt |-> "none", speed |-> 0,
     targetSpeed |-> 0, paused |-> FALSE, activeEnvs |-> {}, time |-> 0,
     wingFlipped |-> FALSE, wingFlipT |-> 0, wingFlipping |-> FALSE,
     rearWingRot |-> 0, fault |-> "none", frame |-> IdleFrame]

\* No function of airflow-core.js has been called
NoFlowCall == [fn |-> "none", args |-> <<>>, result |-> <<>>]

EmptyWorld ==
    [cfd |-> CfdFields, airflow |-> AirflowFields, scene |-> {},
     gpu |-> [geo |-> {}, mat |-> {}],
     host |-> HostFields, bound |-> [e \in Effects |-> "unbound"],
     rain |-> WeatherFields, optimal |-> WeatherFields,
     flow |-> NoFlowCall]

Called(obj, op) == [obj |-> obj, op |-> op]

\* The effect is still attached: dispose() is the last call made on an object
Attached(obj) == obj \in scene

Start(w) ==
    /\ cfd = w.cfd
    /\ airflow = w.airflow
    /\ scene = w.scene
    /\ gpu = w.gpu
    /\ host = w.host
    /\ bound = w.bound
    /\ rain = w.rain
    /\ optimal = w.optimal
    /\ flow = w.flow
    /\ shown = [e \in {"airflow", "cfd"} |-> FALSE]
    /\ recolorAt = -1
    /\ frames = 0

\* A call or handler starts with no exception pending; the record of the last
\* frame is not kept beyond the frame
Begin(w) == [w EXCEPT !.host.fault = "none", !.host.frame = IdleFrame]

\* The exception the last call threw
Threw == host.fault # "none"

\* new CfdEffect(scene)
CfdInit ==
    /\ Start(CfdConstruct(EmptyWorld))
    /\ call = Called("cfd", "new")

DoCfdSetCarType ==
    \E type \in TypeCodes :
        /\ Attached("cfd")
        /\ Apply(CfdSetCarType(Begin(World), type))
        /\ call' = Called("cfd", "setCarType")
        /\ recolorAt' = IF type = cfd.type THEN recolorAt ELSE -1
        /\ UNCHANGED <<shown, frames>>

DoCfdSetSpeed ==
    \E speed \in Speeds :
        /\ Attached("cfd")
        /\ Apply(CfdSetSpeed(Begin(World), speed))
        /\ call' = Called("cfd", "setSpeed")
        /\ UNCHANGED <<shown, recolorAt, frames>>

DoCfdSetVisible ==
    \E v \in BOOLEAN :
        /\ Attached("cfd")
        /\ Apply(CfdSetVisible(Begin(World), v))
        /\ call' = Called("cfd", "setVisible")
        /\ shown' = [shown EXCEPT !["cfd"] = v]
        /\ UNCHANGED <<recolorAt, frames>>

DoCfdSetWingStall ==
    \E isStalled \in BOOLEAN :
        /\ Attached("cfd")
        /\ Apply(CfdSetWingStall(Begin(World), isStalled))
        /\ call' = Called("cfd", "setWingStall")
        /\ recolorAt' = -1
        /\ UNCHANGED <<shown, frames>>

\* A recompute bumps the colour attributes (needsUpdate) and clears the flag
CfdRecolored == cfd.speedDirty /\ ~cfd'.speedDirty

\* rnd() is only called while a stalled rear-wing patch is recoloured
CfdNoiseDraws ==
    IF cfd.wingStalled
    THEN {[v \in DOMAIN PatchProbes |-> IF v % 2 = k THEN -50 ELSE 49] : k \in 0..1}
    ELSE {[v \in DOMAIN PatchProbes |-> 0]}

DoCfdUpdate ==
    \E dt \in 0..MaxDt, t \in 0..MaxT, noise \in CfdNoiseDraws :
        /\ Attached("cfd")
        /\ Apply(CfdUpdate(Begin(World), dt, t, noise))
        /\ call' = Called("cfd", "update")
        /\ recolorAt' = IF CfdRecolored THEN cfd.speed ELSE recolorAt
        /\ UNCHANGED <<shown, frames>>

DoCfdDispose ==
    /\ Attached("cfd")
    /\ Apply(CfdDispose(Begin(World)))
    /\ call' = Called("cfd", "dispose")
    /\ UNCHANGED <<shown, recolorAt, frames>>

CfdNext ==
    \/ DoCfdSetCarType
    \/ DoCfdSetSpeed
    \/ DoCfdSetVisible
    \/ DoCfdSetWingStall
    \/ DoCfdUpdate
    \/ DoCfdDispose

\* A CfdEffect under any sequence of calls
CfdSpec == CfdInit /\ [][CfdNext]_vars

\* new AirflowEffect(scene)
AirflowInit ==
    /\ \E u \in RandStreams : Start(AirflowConstruct(EmptyWorld, u))
    /\ call = Called("airflow", "new")

\* _build draws from Math.random() only when setCarType rebuilds
AirflowBuildDraws(type) ==
    IF type = airflow.type THEN {CHOOSE u \in RandStreams : TRUE} ELSE RandStreams

DoAirflowSetCarType ==
    \E type \in TypeCodes :
        \E u \in AirflowBuildDraws(type) :
            /\ Attached("airflow")
            /\ Apply(AirflowSetCarType(Begin(World), type, u))
            /\ call' = Called("airflow", "setCarType")
            /\ UNCHANGED <<shown, recolorAt, frames>>

DoAirflowSetSpeed ==
    \E speed \in AirflowSpeeds :
        /\ Attached("airflow")
        /\ Apply(AirflowSetSpeed(Begin(World), speed))
        /\ call' = Called("airflow", "setSpeed")
        /\ UNCHANGED <<shown, recolorAt, frames>>

DoAirflowSetVisible ==
    \E v \in BOOLEAN :
        /\ Attached("airflow")
        /\ Apply(AirflowSetVisible(Begin(World), v))
        /\ call' = Called("airflow", "setVisible")
        /\ shown' = [shown EXCEPT !["airflow"] = v]
        /\ UNCHANGED <<recolorAt, frames>>

\* update() draws from Math.random() only while the effect is visible
AirflowUpdateDraws ==
    IF airflow.visible THEN RandStreams ELSE {CHOOSE u \in RandStreams : TRUE}

\* The rebuild of the last setCarType threw: the fields _build reads from
\* the profile are undefined
AirflowHalfBuilt == airflow.halfW = 0

\* Visible updates are followed for MaxFrames frames, and not on an effect
\* whose rebuild threw
DoAirflowUpdate ==
    \E dt \in 0..MaxDt, t \in 0..MaxT, u \in AirflowUpdateDraws :
        /\ Attached("airflow")
        /\ airflow.visible => frames < MaxFrames /\ ~AirflowHalfBuilt
        /\ Apply(AirflowUpdate(Begin(World), dt, t, u))
        /\ call' = Called("airflow", "update")
        /\ frames' = IF airflow.visible THEN frames + 1 ELSE frames
        /\ UNCHANGED <<shown, recolorAt>>

DoAirflowDispose ==
    /\ Attached("airflow")
    /\ Apply(AirflowDispose(Begin(World)))
    /\ call' = Called("airflow", "dispose")
    /\ UNCHANGED <<shown, recolorAt, frames>>

AirflowNext ==
    \/ DoAirflowSetCarType
    \/ DoAirflowSetSpeed
    \/ DoAirflowSetVisible
    \/ DoAirflowUpdate
    \/ DoAirflowDispose

\* An AirflowEffect under any sequence of calls
AirflowSpec == AirflowInit /\ [][AirflowNext]_vars

\* Either effect, constructed alone, under any sequence of calls
Init == CfdInit \/ AirflowInit

Next == CfdNext \/ AirflowNext

Spec == Init /\ [][Next]_vars

\* The page before its script runs
HostInit ==
    /\ Start(EmptyWorld)
    /\ call = Called("host", "init")

HostStep(op) ==
    /\ call' = Called("host", op)
    /\ UNCHANGED <<shown, recolorAt>>

\* The sets of constructors that throw
Failures == {f \in SUBSET Effects : Cardinality(f) <= MaxFailing}

\* The script runs from the constructors to the first animate()
DoHostLoad ==
    \E failing \in Failures, u \in RandStreams :
        /\ host.pc = "load"
        /\ Apply(HostStart(spawnCar(HostConstruct(World, failing, u), "F1", u), u))
        /\ HostStep("load")
        /\ UNCHANGED frames

\* requestAnimationFrame(animate); frames are followed up to MaxHostFrames
\* At most one update() throws in a frame; the weather effects' update() is
\* followed as a whole, so it throws on entry
UpdateFaults ==
    {[e \in Effects |-> "none"]}
        \cup {[e \in Effects |-> IF e = f THEN "entry" ELSE "none"] : f \in Effects}
        \cup {[e \in Effects |-> IF e = f THEN "exit" ELSE "none"] :
                 f \in {"airflow", "cfd"}}

DoHostFrame ==
    \E dt \in 0..MaxDt, u \in AirflowUpdateDraws, noise \in CfdNoiseDraws,
       thr \in UpdateFaults :
        /\ host.pc = "running"
        /\ frames < MaxHostFrames
        /\ Apply(animate(World, dt, u, noise, thr))
        /\ HostStep("animate")
        /\ frames' = frames + 1

DoHostCarClick ==
    \E type \in CarButtons, u \in RandStreams :
        /\ host.pc = "running"
        /\ Apply(HostCarClick(Begin(World), type, u))
        /\ HostStep("carClick")
        /\ UNCHANGED frames

DoHostSetSpeed ==
    \E v \in HostSpeeds :
        /\ host.pc = "running"
        /\ Apply(HostSetSpeed(Begin(World), v))
        /\ HostStep("setSpeed")
        /\ UNCHANGED frames

DoHostEnvToggle ==
    \E env \in Effects :
        /\ host.pc = "running"
        /\ Apply(HostEnvToggle(Begin(World), env))
        /\ HostStep("envToggle")
        /\ UNCHANGED frames

DoHostWingFlip ==
    /\ host.pc = "running"
    /\ Apply(HostWingFlip(Begin(World)))
    /\ HostStep("wingFlip")
    /\ UNCHANGED frames

DoHostPause ==
    /\ host.pc = "running"
    /\ Apply(HostPause(Begin(World)))
    /\ HostStep("pause")
    /\ UNCHANGED frames

DoHostReset ==
    /\ host.pc = "running"
    /\ Apply(HostReset(Begin(World)))
    /\ HostStep("reset")
    /\ UNCHANGED frames

HostNext ==
    \/ DoHostLoad
    \/ DoHostFrame
    \/ DoHostCarClick
    \/ DoHostSetSpeed
    \/ DoHostEnvToggle
    \/ DoHostWingFlip
    \/ DoHostPause
    \/ DoHostReset

\* The page: its script, then frames and user input in any order
HostSpec == HostInit /\ [][HostNext]_vars

----------------------------------------------------------------------------
(* Claims *)

CfdUpdateStep == call'.obj = "cfd" /\ call'.op = "update"

\* C1: once the patch colours have been recomputed at speed s, a visible
\* update() recomputes them exactly when the speed now stored differs from s
\* by more than 5: a change of at most 5 is coalesced, a larger one triggers
\* one recompute.
C1_Coalescing ==
    [][(CfdUpdateStep /\ cfd.visible /\ recolorAt >= 0)
          => (CfdRecolored <=> Abs(cfd.speed - recolorAt) > 50)]_vars

\* C1 witness: a visible update() has just left a speed change of 4 pending
C1_Witness ==
    /\ call = Called("cfd", "update")
    /\ cfd.visible
    /\ recolorAt >= 0
    /\ cfd.speed # recolorAt
    /\ Abs(cfd.speed - recolorAt) <= 50
    /\ cfd.speedDirty

\* C2: the visible update() that follows setWingStall(flag) recomputes the
\* patch colours, whatever the stored speed.
C2_StallForcesRecolor ==
    [][(call = Called("cfd", "setWingStall") /\ CfdUpdateStep /\ cfd.visible)
          => CfdRecolored]_vars

\* The effect a step calls, and the operation
Calls(obj, op) == call' = Called(obj, op)

\* Everything the two effects own or touch
effects == <<cfd, airflow, scene, gpu>>

\* C3: setCarType(type) with the current type is a no-op on both effects: no
\* primitive is disposed or built and no field of the effect changes.
C3_SameTypeNoOp ==
    [][(\/ Calls("cfd", "setCarType") /\ cfd'.type = cfd.type
        \/ Calls("airflow", "setCarType") /\ airflow'.type = airflow.type)
          => UNCHANGED effects]_vars

\* C3 witness: setCarType has returned and the last-built speed of an earlier
\* recompute is still there, which a rebuild would have reset
C3_Witness ==
    /\ call = Called("cfd", "setCarType")
    /\ cfd.lastBuiltSpeed >= 0
    /\ ~cfd.speedDirty

\* The primitives _build creates for a type
CfdPrims(type) ==
    {Prim("cfd", "patch", type, k) : k \in 1..Len(CfdPatchDefs(type))}
        \cup {Prim("cfd", "blob", type, k) : k \in 1..Len(CfdBlobDefs(type))}
        \cup {Prim("cfd", "vortex", type, k) : k \in 1..Len(CfdVortexDefs(type))}

AirflowPrims(type) ==
    {Prim("airflow", "guide", type, k) :
        k \in 1..Len(buildSeedList(getProfile(type)))}
        \cup {Prim("airflow", "vortex", type, k) :
                 k \in 1..Len(getProfile(type).vortexDefs)}
        \cup {Prim("airflow", "smoke", type, 0), Prim("airflow", "wake", type, 0)}

CfdBuiltFor(type) ==
    /\ cfd.group.children = CfdPrims(type)
    /\ gpu.geo = CfdPrims(type) /\ gpu.mat = CfdPrims(type)
    /\ Ids(cfd.patchMeshes) \cup Ids(cfd.blobMeshes) \cup Ids(cfd.vortexLines)
          = CfdPrims(type)
    /\ Len(cfd.patchMeshes) = Len(CfdPatchDefs(type))
    /\ Len(cfd.blobMeshes) = Len(CfdBlobDefs(type))
    /\ Len(cfd.vortexLines) = Len(CfdVortexDefs(type))

AirflowBuiltFor(type) ==
    /\ airflow.group.children = AirflowPrims(type)
    /\ gpu.geo = AirflowPrims(type) /\ gpu.mat = AirflowPrims(type)
    /\ Ids(airflow.guideLines) \cup Ids(airflow.vortexLines)
          \cup {airflow.smoke.id, airflow.wake.id} = AirflowPrims(type)
    /\ airflow.seeds = buildSeedList(getProfile(type))
    /\ Len(airflow.paths) = Len(airflow.seeds)
    /\ Len(airflow.guideLines) = Len(airflow.seeds)
    /\ Len(airflow.vortexLines) = Len(getProfile(type).vortexDefs)
    /\ \A n \in DOMAIN airflow.paths :
          airflow.paths[n].from = <<airflow.seeds[n].seedXi, airflow.seeds[n].seedEta>>

C5_InvisibleUpdateNoOp ==
    [][(\/ Calls("cfd", "update") /\ ~cfd.visible
        \/ Calls("airflow", "update") /\ ~airflow.visible)
          => UNCHANGED effects]_vars

\* C5 witness: an invisible AirflowEffect at 400 km/h has been updated and
\* its smoke is still transparent
C5_Witness ==
    /\ call = Called("airflow", "update")
    /\ ~airflow.visible
    /\ airflow.speed = 4000
    /\ airflow.smoke.opacity = 0

\* C6: setSpeed and setWingStall store their argument and set the dirty
\* markers, and change nothing else: no colour, opacity, buffer or particle.
C6_SettersOnlyStore ==
    [][(\/ Calls("cfd", "setSpeed")
        \/ Calls("cfd", "setWingStall")
        \/ Calls("airflow", "setSpeed"))
          => /\ [cfd' EXCEPT !.speed = cfd.speed,
                             !.wingStalled = cfd.wingStalled,
                             !.speedDirty = cfd.speedDirty,
                             !.lastBuiltSpeed = cfd.lastBuiltSpeed] = cfd
             /\ [airflow' EXCEPT !.speed = airflow.speed] = airflow
             /\ UNCHANGED <<scene, gpu>>]_vars

\* C6 witness: setSpeed has returned on a visible CfdEffect and left a
\* recompute pending
C6_Witness ==
    /\ call = Called("cfd", "setSpeed")
    /\ cfd.visible
    /\ cfd.lastBuiltSpeed >= 0
    /\ CfdColorStale(cfd)

\* C7: the group's visibility is the last value passed to setVisible, false
\* after construction, whatever else is called; setVisible changes the two
\* visibility fields and nothing else.
C7_VisibilityFollowsSetVisible ==
    /\ [](/\ Attached("cfd") => cfd.group.visible = shown["cfd"]
          /\ Attached("airflow") => airflow.group.visible = shown["airflow"])
    /\ [][(Calls("cfd", "setVisible") \/ Calls("airflow", "setVisible"))
            => /\ [cfd' EXCEPT !.visible = cfd.visible,
                               !.group.visible = cfd.group.visible] = cfd
               /\ [airflow' EXCEPT !.visible = airflow.visible,
                                   !.group.visible = airflow.group.visible]
                     = airflow
               /\ UNCHANGED <<scene, gpu>>]_vars

\* C7 witness: a visible AirflowEffect rebuilt for another type and updated
C7_Witness ==
    /\ call = Called("airflow", "update")
    /\ shown["airflow"]
    /\ airflow.group.visible
    /\ airflow.type = "GT"
    /\ frames > 0

\* C8: when dispose() returns, every geometry and material the effect created
\* is disposed, its group is empty and the group is off the scene.
C8_DisposeReleases ==
    call.op = "dispose"
        => /\ gpu.geo = {} /\ gpu.mat = {}
           /\ cfd.group.children = {} /\ airflow.group.children = {}
           /\ scene = {}

\* C9: every object the host has bound to `airflow` or `cfd` implements all six
\* operations of the stub's interface, and no handler of the host has ended
\* in a call to an operation its receiver does not have.
C9_FullInterface ==
    /\ \A e \in {"airflow", "cfd"} :
          bound[e] = "real" => StubMethods \subseteq Methods(e)
    /\ host.fault = "none"

\* C10: once the script has run with a constructor that threw, a stub stands
\* in for that effect, every other effect is constructed, the render loop is
\* running, and no host call has faulted.
C10_StubKeepsLoopRunning ==
    (host.pc # "load" /\ \E e \in Effects : bound[e] = "stub")
        => /\ \A e \in Effects : bound[e] \in {"stub", "real"}
           /\ host.pc = "running"
           /\ host.fault = "none"

\* C11: when animate() returns, no exception has escaped it, the HUD was
\* updated and the scene rendered, and unless the simulation is paused every
\* effect's update() was called, also after an earlier update() of the frame
\* threw; an effect whose update() threw on entry is as it was before.
C11_UpdateFaultsContained ==
    /\ [](call = Called("host", "animate")
            => /\ host.fault = "none"
               /\ host.frame.presented
               /\ ~host.paused => host.frame.called = Effects)
    /\ [][Calls("host", "animate")
            => /\ host'.frame.caught["cfd"] = "entry" => cfd' = cfd
               /\ host'.frame.caught["rain"] = "entry" => rain' = rain
               /\ host'.frame.caught["optimal"] = "entry" => optimal' = optimal
               /\ host'.frame.caught["airflow"] = "entry" => airflow' = airflow]_vars

\* C11 witness: rain.update() threw in a frame, and the visible CfdEffect was
\* still updated in it and the frame presented
C11_Witness ==
    /\ call = Called("host", "animate")
    /\ host.frame.caught["rain"] = "entry"
    /\ bound["cfd"] = "real" /\ cfd.visible
    /\ ~host.paused
    /\ "cfd" \in host.frame.called
    /\ host.frame.presented

\* C12: setCarType with a type code that none of the tables defines throws
\* nothing, and an effect whose type is such a code is built from the F1
\* definitions: F1's patches, blobs and vortex cores, F1's seeds, dimensions
\* and vortex spirals, also after later calls.
C12_UnknownTypeFallsBack ==
    /\ call.op = "setCarType" => ~Threw
    /\ (Attached("cfd") /\ cfd.type \notin DOMAIN CFD_PATCHES)
          => /\ [k \in DOMAIN cfd.patchMeshes |-> cfd.patchMeshes[k].patchDef]
                   = CFD_PATCHES["F1"]
             /\ Len(cfd.blobMeshes) = Len(ZONE_BLOBS["F1"])
             /\ Len(cfd.vortexLines) = Len(VORTEX_CORES["F1"])
    /\ (Attached("airflow") /\ airflow.type \notin DOMAIN CAR_AERO)
          => /\ airflow.seeds = buildSeedList(CAR_AERO["F1"])
             /\ airflow.halfW = CAR_AERO["F1"].halfW
             /\ Len(airflow.vortexLines) = Len(CAR_AERO["F1"].vortexDefs)

----------------------------------------------------------------------------
(* The opacities AirflowEffect.update() sets, in millionths *)

\* The last call was an update() of a visible AirflowEffect
AirflowUpdated == call = Called("airflow", "update") /\ airflow.visible /\ ~Threw

\* The opacities of the guide lines that exist
GuideOpacities ==
    {airflow.guideLines[s].opacity :
        s \in {i \in DOMAIN airflow.guideLines : airflow.guideLines[i].id # NoLine}}

VortexOpacities == {airflow.vortexLines[k].opacity : k \in DOMAIN airflow.vortexLines}

\* Every opacity update() sets
AirflowOpacities ==
    GuideOpacities \cup VortexOpacities \cup {airflow.smoke.opacity, airflow.wake.opacity}

\* factor (in millionths) times the speedFactor of the stored speed
Scaled(factor) == (speedFactor(airflow.speed) * factor) \div 350

\* C13: after a visible AirflowEffect.update(), whatever the speed >= 0, the
\* opacity of the guide lines, the smoke, the vortex spirals and the wake lies
\* in [0, 1]; at speed 0 all four are 0; at speed >= 350 they are 0.55, 0.88,
\* 0.80 and 0.70.
C13_OpacityRange ==
    AirflowUpdated =>
        /\ \A o \in AirflowOpacities : 0 <= o /\ o <= 1000000
        /\ airflow.speed = 0 => AirflowOpacities = {0}
        /\ airflow.speed >= 3500 =>
              /\ GuideOpacities \subseteq {550000}
              /\ airflow.smoke.opacity = 880000
              /\ VortexOpacities \subseteq {800000}
              /\ airflow.wake.opacity = 700000

\* A visible update above the maximum speed, with guide lines and spirals
C13_Witness ==
    /\ AirflowUpdated
    /\ airflow.speed > 3500
    /\ GuideOpacities = {550000}
    /\ VortexOpacities = {800000}

\* C14 as stated: after a visible AirflowEffect.update(), at every speed in
\* 0..350, the opacity of each subsystem (guide lines, smoke, vortex spirals,
\* wake) is its fixed factor times speedFactor, so that none jumps between
\* zero and a non-zero opacity.
C14_AllProportional ==
    (AirflowUpdated /\ airflow.speed <= 3500) =>
        /\ GuideOpacities \subseteq {Scaled(550000)}
        /\ airflow.smoke.opacity = Scaled(880000)
        /\ VortexOpacities \subseteq {Scaled(800000)}
        /\ airflow.wake.opacity = Scaled(700000)

\* C14, amended: after a visible AirflowEffect.update(), at every speed in
\* 0..350, the opacity of the guide lines, the smoke and the wake is its
\* fixed factor times speedFactor; the opacity of the vortex spirals is 0.80
\* times speedFactor above 30 km/h and 0 at or below 30 km/h, where it jumps.
C14_ProportionalButVortex ==
    (AirflowUpdated /\ airflow.speed <= 3500) =>
        /\ GuideOpacities \subseteq {Scaled(550000)}
        /\ airflow.smoke.opacity = Scaled(880000)
        /\ airflow.wake.opacity = Scaled(700000)
        /\ VortexOpacities \subseteq
              {IF airflow.speed > 300 THEN Scaled(800000) ELSE 0}

\* A visible update at 30 km/h: the wake is faintly drawn, the spirals are not
C14_Witness ==
    /\ AirflowUpdated
    /\ airflow.speed = 300
    /\ airflow.wake.opacity = 60000
    /\ GuideOpacities # {}
    /\ VortexOpacities = {0}

\* C15: after a visible AirflowEffect.update(), every vortex line has opacity
\* 0 when speed <= 30 km/h and speedFactor x 0.80 when speed > 30 km/h, and
\* the spiral radius is speedFactor squared times the profile's maximum
\* vortex radius.
C15_VortexThreshold ==
    AirflowUpdated =>
        \A k \in DOMAIN airflow.vortexLines :
            /\ airflow.speed <= 300 => airflow.vortexLines[k].opacity = 0
            /\ airflow.speed > 300 =>
                  airflow.vortexLines[k].opacity = Scaled(800000)
            /\ airflow.vortexLines[k].pos.r =
                  (speedFactor(airflow.speed) * speedFactor(airflow.speed)
                     * getProfile(airflow.type).vortexMaxRadius * 2) \div 245

\* A visible update exactly at the threshold, where the spirals have a
\* radius but are not drawn
C15_Witness ==
    /\ AirflowUpdated
    /\ airflow.speed = 300
    /\ \E k \in DOMAIN airflow.vortexLines :
          airflow.vortexLines[k].opacity = 0 /\ airflow.vortexLines[k].pos.r > 0

----------------------------------------------------------------------------
(* applyWingStall(profile, isStalled), imported from airflow-core.js by
   cfd-effect.js and by physics.test.js *)

\* CAR_AERO[type].pressureBlobs; r, intensity and pos in thousandths
PRESSURE_BLOBS ==
    [ F1 |-> <<
        [color |-> "ff2200", r |-> 400, intensity |-> 1000, pos |-> <<0, 120, -2500>>],
        [color |-> "2266ff", r |-> 500, intensity |-> 900, pos |-> <<0, 20, -2600>>],
        [color |-> "ff2200", r |-> 360, intensity |-> 700, pos |-> <<0, 880, 1850>>],
        [color |-> "2266ff", r |-> 550, intensity |-> 950, pos |-> <<0, 750, 1850>>],
        [color |-> "00ddff", r |-> 800, intensity |-> 900, pos |-> <<0, -50, 0>>],
        [color |-> "ff4400", r |-> 300, intensity |-> 700, pos |-> <<850, 40, -1600>>],
        [color |-> "ff4400", r |-> 300, intensity |-> 700, pos |-> <<-850, 40, -1600>>] >>,
      F2 |-> <<
        [color |-> "ff2200", r |-> 380, intensity |-> 850, pos |-> <<0, 120, -2350>>],
        [color |-> "2266ff", r |-> 450, intensity |-> 720, pos |-> <<0, 20, -2360>>],
        [color |-> "ff2200", r |-> 320, intensity |-> 580, pos |-> <<0, 790, 1700>>],
        [color |-> "2266ff", r |-> 480, intensity |-> 760, pos |-> <<0, 680, 1700>>],
        [color |-> "00ddff", r |-> 650, intensity |-> 650, pos |-> <<0, -40, 0>>],
        [color |-> "ff4400", r |-> 260, intensity |-> 550, pos |-> <<760, 40, -1450>>],
        [color |-> "ff4400", r |-> 260, intensity |-> 550, pos |-> <<-760, 40, -1450>>] >>,
      F3 |-> <<
        [color |-> "ff2200", r |-> 320, intensity |-> 680, pos |-> <<0, 110, -2100>>],
        [color |-> "2266ff", r |-> 350, intensity |-> 480, pos |-> <<0, 20, -2120>>],
        [color |-> "2266ff", r |-> 420, intensity |-> 550, pos |-> <<0, 650, 1550>>],
        [color |-> "00ddff", r |-> 450, intensity |-> 350, pos |-> <<0, -30, 0>>] >>,
      GT |-> <<
        [color |-> "ff2200", r |-> 550, intensity |-> 850, pos |-> <<0, 250, -2260>>],
        [color |-> "2266ff", r |-> 450, intensity |-> 550, pos |-> <<0, 100, -2300>>],
        [color |-> "ff2200", r |-> 400, intensity |-> 600, pos |-> <<0, 750, 1800>>],
        [color |-> "2266ff", r |-> 500, intensity |-> 650, pos |-> <<0, 600, 1800>>],
        [color |-> "4488ff", r |-> 500, intensity |-> 550, pos |-> <<850, 280, 0>>],
        [color |-> "4488ff", r |-> 500, intensity |-> 550, pos |-> <<-850, 280, 0>>] >> ]

\* The longitudinal position aft of which an element is a rear element
REAR_Z == 1500

\* const BASE_PROFILE of physics.test.js
BASE_PROFILE ==
    [pressureBlobs |-> <<
        [color |-> "ff2200", r |-> 400, intensity |-> 1000, pos |-> <<0, 120, -2500>>],
        [color |-> "ff2200", r |-> 360, intensity |-> 700, pos |-> <<0, 880, 1850>>],
        [color |-> "2266ff", r |-> 550, intensity |-> 950, pos |-> <<0, 750, 1850>>] >>,
     vortexDefs |-> <<
        [wx |-> -820, wy |-> 20, wz |-> -2600, sign |-> 1, gamma |-> 600, rc |-> 120],
        [wx |-> 820, wy |-> 20, wz |-> -2600, sign |-> -1, gamma |-> 600, rc |-> 120],
        [wx |-> -900, wy |-> 850, wz |-> 1850, sign |-> -1, gamma |-> 1000, rc |-> 180],
        [wx |-> 900, wy |-> 850, wz |-> 1850, sign |-> 1, gamma |-> 1000, rc |-> 180] >>,
     wakeCount |-> 220,
     wakeWidthX |-> 1000]

\* The profile object of a car type, with its pressureBlobs
AeroProfile(type) ==
    [f \in DOMAIN CAR_AERO[type] \cup {"pressureBlobs"} |->
        IF f = "pressureBlobs" THEN PRESSURE_BLOBS[type] ELSE CAR_AERO[type][f]]

\* The profile objects applyWingStall is given
StallProfiles == {BASE_PROFILE} \cup {AeroProfile(type) : type \in DOMAIN CAR_AERO}

\* The stalled copy of a profile object: rear markers weakened, rear vortex
\* definitions dropped, wake count and width increased
StalledProfile(p) ==
    [f \in DOMAIN p |->
        CASE f = "pressureBlobs" ->
                 [k \in DOMAIN p.pressureBlobs |->
                     IF p.pressureBlobs[k].pos[3] > REAR_Z
                     THEN [p.pressureBlobs[k] EXCEPT !.intensity = (@ * 2) \div 5]
                     ELSE p.pressureBlobs[k]]
          [] f = "vortexDefs" -> SelectSeq(p.vortexDefs, LAMBDA d : d.wz <= REAR_Z)
          [] f = "wakeCount" -> (p.wakeCount * 3) \div 2
          [] f = "wakeWidthX" -> (p.wakeWidthX * 3) \div 2
          [] OTHER -> p[f]]

\* applyWingStall that weakens and trims the profile it is given
applyWingStallInPlace(heap, profile, isStalled) ==
    IF ~isStalled THEN [heap |-> heap, result |-> profile]
    ELSE [heap |-> [heap EXCEPT ![profile] = StalledProfile(@)], result |-> profile]

\* applyWingStall that keeps the rear vortex definitions
applyWingStallKeepVortices(heap, profile, isStalled) ==
    IF ~isStalled THEN [heap |-> heap, result |-> profile]
    ELSE [heap |-> Append(heap, [StalledProfile(heap[profile]) EXCEPT
                                    !.vortexDefs = heap[profile].vortexDefs]),
          result |-> Len(heap) + 1]

\* applyWingStall(profile, isStalled).  Objects live in `heap`, a reference
\* is an index into it; the result is the reference returned and the heap
\* after the call.
applyWingStall(heap, profile, isStalled) ==
    IF ~isStalled THEN [heap |-> heap, result |-> profile]
    ELSE [heap |-> Append(heap, StalledProfile(heap[profile])),
          result |-> Len(heap) + 1]

FlowWingStall(w, p, isStalled) ==
    Eval(applyWingStall(<<p>>, 1, isStalled), LAMBDA r :
        [w EXCEPT !.flow = [fn |-> "applyWingStall", args |-> <<1, isStalled>>,
                            given |-> p, heap |-> r.heap, result |-> r.result]])

----------------------------------------------------------------------------
(* The functions of airflow-core.js called on their own *)

\* Coordinates in thousandths: points inside the body, on its surface
\* ((0, 1), (1, 0), (0.6, 0.8)), next to it and away from it
FlowXis == {-1500, -600, 0, 300, 600, 1000, 1100, 1500}
FlowEtas == {-3000, -2000, -1100, -1000, -800, 0, 800, 1000, 2500}

\* steps and stepSize (in thousandths) passed to traceStreamlinePath; the
\* coordinates of a path of STEPS steps of STEP_SIZE stay within the integers
\* whose squares are computed
StepCounts == {0, 1, 5, STEPS}
StepSizes == {0, 50, STEP_SIZE}

FlowTrace(w, seedXi, seedEta, steps, stepSize) ==
    [w EXCEPT !.flow = [fn |-> "traceStreamlinePath",
                        args |-> <<seedXi, seedEta, steps, stepSize>>,
                        result |-> traceStreamlinePath(seedXi, seedEta, steps, stepSize)]]

FlowTopView(w, xi, eta) ==
    [w EXCEPT !.flow = [fn |-> "topViewVelocity", args |-> <<xi, eta>>,
                        result |-> topViewVelocity(xi, eta)]]

FlowSideView(w, etaNorm, yNorm) ==
    [w EXCEPT !.flow = [fn |-> "sideViewVelocity", args |-> <<etaNorm, yNorm>>,
                        result |-> sideViewVelocity(etaNorm, yNorm)]]

\* import ... from './airflow-core.js'
\* The functions keep nothing between calls: a behaviour follows one call
FlowIdle == flow = NoFlowCall

FlowInit ==
    /\ Start(EmptyWorld)
    /\ call = Called("airflow-core", "import")

FlowStep(fn) ==
    /\ call' = Called("airflow-core", fn)
    /\ UNCHANGED <<shown, recolorAt, frames>>

DoTraceStreamlinePath ==
    \E seedXi \in FlowXis, seedEta \in FlowEtas, steps \in StepCounts,
       stepSize \in StepSizes :
        /\ FlowIdle
        /\ Apply(FlowTrace(Begin(World), seedXi, seedEta, steps, stepSize))
        /\ FlowStep("traceStreamlinePath")

DoTopViewVelocity ==
    \E xi \in FlowXis, eta \in FlowEtas :
        /\ FlowIdle
        /\ Apply(FlowTopView(Begin(World), xi, eta))
        /\ FlowStep("topViewVelocity")

DoSideViewVelocity ==
    \E etaNorm \in FlowEtas, yNorm \in FlowXis :
        /\ FlowIdle
        /\ Apply(FlowSideView(Begin(World), etaNorm, yNorm))
        /\ FlowStep("sideViewVelocity")

\* Arguments of lerpSpeed: speeds around the snap distance of 0.5 km/h and
\* apart, accelerations in tenths of km/h per second, dt in ticks of 1/20 s
LerpSpeeds == {0, 3, 5, 6, 500, 997, 1000, 1005, 1006, 2000, 3500}
LerpAccels == {20, 600, 900}
LerpDts == {0, 1, 20, 200}

FlowLerpSpeed(w, cur, tgt, accelUp, accelDown, dt) ==
    [w EXCEPT !.flow = [fn |-> "lerpSpeed",
                        args |-> <<cur, tgt, accelUp, accelDown, dt>>,
                        result |-> lerpSpeed(cur, tgt, accelUp, accelDown, dt)]]

DoLerpSpeed ==
    \E cur \in LerpSpeeds, tgt \in LerpSpeeds, accelUp \in LerpAccels,
       accelDown \in LerpAccels, dt \in LerpDts :
        /\ FlowIdle
        /\ Apply(FlowLerpSpeed(Begin(World), cur, tgt, accelUp, accelDown, dt))
        /\ FlowStep("lerpSpeed")

DoApplyWingStall ==
    \E p \in StallProfiles, isStalled \in BOOLEAN :
        /\ FlowIdle
        /\ Apply(FlowWingStall(Begin(World), p, isStalled))
        /\ FlowStep("applyWingStall")

FlowNext ==
    \/ DoTraceStreamlinePath
    \/ DoTopViewVelocity
    \/ DoSideViewVelocity
    \/ DoApplyWingStall
    \/ DoLerpSpeed

\* A function of airflow-core.js called on any of the arguments
FlowSpec == FlowInit /\ [][FlowNext]_vars

\* Inside the body or on its surface: r2 <= 1
InBody(xi, eta) == xi * xi + eta * eta <= 1000000

\* The last call was traceStreamlinePath(seedXi, seedEta, steps, stepSize)
Traced == flow.fn = "traceStreamlinePath"

\* C16: for every seed, step count and step size, the path returned by
\* traceStreamlinePath has at most `steps` samples and, unless steps is 0 and
\* the path empty, its first sample is at the seed position.
C16_PathStartsAtSeed ==
    Traced =>
        /\ Len(flow.result) <= flow.args[3]
        /\ flow.args[3] >= 1 =>
              /\ Len(flow.result) >= 1
              /\ flow.result[1].xi = flow.args[1]
              /\ flow.result[1].eta = flow.args[2]

\* A trace that used all its steps, and whose path has moved off the seed
C16_Witness ==
    /\ Traced
    /\ flow.args[3] = 5
    /\ Len(flow.result) = 5
    /\ flow.result[1].xi = flow.args[1] /\ flow.result[1].eta = flow.args[2]
    /\ flow.result[5].eta # flow.args[2]

\* Math.sqrt(vxi * vxi + veta * veta) of a recorded sample
SampleSpeed(pt) == Sqrt(pt.vxi * pt.vxi + pt.veta * pt.veta)

\* C17 as stated: for any seed, no sample of the path returned by
\* traceStreamlinePath lies inside the body (xi^2 + eta^2 <= 1), and no
\* terminal point is recorded: neither a position inside the body nor a
\* sample whose local speed is below 1e-6.
C17_NoSampleInBody ==
    Traced =>
        \A i \in DOMAIN flow.result :
            /\ ~InBody(flow.result[i].xi, flow.result[i].eta)
            /\ SampleSpeed(flow.result[i]) >= 1

\* C17, amended: from a seed strictly outside the body no sample of the path
\* lies inside the body, and a path shorter than `steps` ends at a sample from
\* which the next position would fall inside the body (that position is not
\* recorded) or whose local speed is below 1e-6 (that sample is recorded);
\* from a seed inside or on the body the path is the seed alone, recorded
\* with velocity (0, 0).
C17_OutsideSeedStaysOutside ==
    (Traced /\ flow.args[3] >= 1) =>
        LET path == flow.result
            last == path[Len(path)]
        IN  IF InBody(flow.args[1], flow.args[2])
            THEN path = <<[xi |-> flow.args[1], eta |-> flow.args[2],
                           vxi |-> 0, veta |-> 0]>>
            ELSE /\ \A i \in DOMAIN path : ~InBody(path[i].xi, path[i].eta)
                 /\ \A i \in 1..(Len(path) - 1) : SampleSpeed(path[i]) >= 1
                 /\ Len(path) < flow.args[3] =>
                       \/ SampleSpeed(last) < 1
                       \/ LET v == topViewVelocity(last.xi, last.eta)
                          IN  InBody(last.xi + (v.vxi * flow.args[4]) \div SampleSpeed(last),
                                     last.eta + (v.veta * flow.args[4]) \div SampleSpeed(last))

\* A streamline headed at the body from outside that stopped short of it
C17_Witness ==
    /\ Traced
    /\ ~InBody(flow.args[1], flow.args[2])
    /\ flow.args[3] = STEPS
    /\ Len(flow.result) > 1
    /\ Len(flow.result) < STEPS
    /\ SampleSpeed(flow.result[Len(flow.result)]) >= 1

\* C18: topViewVelocity and sideViewVelocity return exactly (0, 0) for every
\* point inside or on the unit circle (sum of the squared coordinates <= 1),
\* its boundary points included, and a velocity other than (0, 0), with the
\* sign of the closed form in its transverse component, strictly outside.
C18_ZeroInsideBody ==
    /\ flow.fn = "topViewVelocity" =>
          IF InBody(flow.args[1], flow.args[2])
          THEN flow.result = [vxi |-> 0, veta |-> 0]
          ELSE /\ flow.result # [vxi |-> 0, veta |-> 0]
               /\ flow.result.vxi * flow.args[1] * flow.args[2] <= 0
    /\ flow.fn = "sideViewVelocity" =>
          IF InBody(flow.args[1], flow.args[2])
          THEN flow.result = [veta |-> 0, vy |-> 0]
          ELSE /\ flow.result # [veta |-> 0, vy |-> 0]
               /\ flow.result.vy * flow.args[1] * flow.args[2] <= 0

\* topViewVelocity at a point of the surface that is not a stagnation point
C18_Witness ==
    /\ flow.fn = "topViewVelocity"
    /\ flow.args[1] * flow.args[1] + flow.args[2] * flow.args[2] = 1000000
    /\ flow.args[1] # 0
    /\ flow.result = [vxi |-> 0, veta |-> 0]

\* The last call was applyWingStall(profile, isStalled)
Stalled(isStalled) == flow.fn = "applyWingStall" /\ flow.args[2] = isStalled

\* The object the call was given, and the object it returned, after the call
GivenProfile == flow.heap[flow.args[1]]
ResultProfile == flow.heap[flow.result]

\* C19: applyWingStall(profile, false) returns the very reference it was
\* given, and applyWingStall(profile, true) leaves every field of the
\* original profile (pressure markers, vortex definitions, wake count and
\* width) as it was; neither call changes the object it was given.
C19_PureNonMutating ==
    /\ Stalled(FALSE) => flow.result = flow.args[1]
    /\ flow.fn = "applyWingStall" => GivenProfile = flow.given

\* A stalled call on the F1 profile, which returned another object
C19_Witness ==
    /\ Stalled(TRUE)
    /\ flow.given = AeroProfile("F1")
    /\ flow.result # flow.args[1]
    /\ ResultProfile # GivenProfile

RECURSIVE SumIntensity(_)
SumIntensity(blobs) ==
    IF blobs = <<>> THEN 0 ELSE Head(blobs).intensity + SumIntensity(Tail(blobs))

\* Total intensity of the markers aft of REAR_Z and number of vortex
\* definitions aft of it
RearIntensity(p) ==
    SumIntensity(SelectSeq(p.pressureBlobs, LAMBDA b : b.pos[3] > REAR_Z))

RearVortices(p) == Len(SelectSeq(p.vortexDefs, LAMBDA d : d.wz > REAR_Z))

----------------------------------------------------------------------------
(* physics.js: lerpSpeed *)

\* The last call was lerpSpeed(cur, tgt, accelUp, accelDown, dt)
Lerped == flow.fn = "lerpSpeed"

\* The result lies between cur and tgt, and is tgt within 0.5 km/h of it
LerpNoOvershoot ==
    /\ Min(flow.args[1], flow.args[2]) <= flow.result
    /\ flow.result <= Max(flow.args[1], flow.args[2])
    /\ Abs(flow.args[2] - flow.args[1]) <= 5 => flow.result = flow.args[2]

\* The result is within accelUp*dt above cur or accelDown*dt below it
LerpWithinRate ==
    /\ flow.result >= flow.args[1] =>
          (flow.result - flow.args[1]) * 20 <= flow.args[3] * flow.args[5]
    /\ flow.result <= flow.args[1] =>
          (flow.args[1] - flow.result) * 20 <= flow.args[4] * flow.args[5]

\* C21 as stated: for dt >= 0 and positive accelerations the result of
\* lerpSpeed lies between cur and tgt inclusive, equals tgt whenever
\* |tgt - cur| <= 0.5, and is at most accelUp*dt above cur when accelerating
\* and at most accelDown*dt below it when decelerating.
C21_NeverOvershoots == Lerped => LerpNoOvershoot /\ LerpWithinRate

\* C21, amended: the result lies between cur and tgt inclusive and equals
\* tgt whenever |tgt - cur| <= 0.5, whatever dt is; when |tgt - cur| > 0.5 it
\* is at most accelUp*dt above cur when accelerating and at most accelDown*dt
\* below it when decelerating.
C21_NeverOvershootsSnapApart ==
    Lerped =>
        /\ LerpNoOvershoot
        /\ Abs(flow.args[2] - flow.args[1]) > 5 => LerpWithinRate

\* A call whose step is clamped to the distance left, and one is enough
C21_Witness ==
    /\ Lerped
    /\ Abs(flow.args[2] - flow.args[1]) > 5
    /\ flow.args[4] * flow.args[5] > Abs(flow.args[2] - flow.args[1]) * 20
    /\ flow.args[2] < flow.args[1]
    /\ flow.result = flow.args[2]

----------------------------------------------------------------------------
(* The particles of a shown AirflowEffect over several frames *)

\* Car types with a profile of their own, speeds, and dt in ticks of 1/20 s
\* (one tick is the host's largest dt; update() itself takes any dt)
ParticleTypes == {"F1", "GT"}
ParticleSpeeds == {310, 3500}
ParticleDts == {1, 4, 20}

\* new AirflowEffect(scene), setCarType(type), setVisible(true), setSpeed(speed)
ParticleSetup(type, speed, u) ==
    AirflowSetSpeed(
        AirflowSetVisible(
            AirflowSetCarType(AirflowConstruct(EmptyWorld, u), type, u), TRUE),
        speed)

ParticleInit ==
    /\ \E type \in ParticleTypes, speed \in ParticleSpeeds, u \in RandStreams :
          Start(ParticleSetup(type, speed, u))
    /\ call = Called("airflow", "setSpeed")

\* update(dt, t) of the shown effect
DoParticleFrame ==
    \E dt \in ParticleDts, t \in 0..MaxT, u \in RandStreams :
        /\ frames < MaxParticleFrames
        /\ Apply(AirflowUpdate(Begin(World), dt, t, u))
        /\ call' = Called("airflow", "update")
        /\ frames' = frames + 1
        /\ UNCHANGED <<shown, recolorAt>>

ParticleNext == DoParticleFrame

\* A shown AirflowEffect updated frame after frame
ParticleSpec == ParticleInit /\ [][ParticleNext]_vars

\* The path of the smoke particle that is followed, and its seed
SmokePath == PathPoints(airflow.paths[airflow.smoke.seedIdx + 1])
SmokeSeed == airflow.seeds[airflow.smoke.seedIdx + 1]

\* The position of a particle restarted at the head of its path: the first
\* sample, a vertical offset of one step from zero and a jitter drawn from zero
SmokeRestarted(sm) ==
    LET amp == (6 * speedFactor(airflow.speed) * 1000) \div 350
        first == SmokePath[1]
    IN  /\ sm.YAcc = AirflowVerticalDelta(airflow, first.eta, SmokeSeed.y) * 50
        /\ Abs(sm.Jx) <= amp /\ Abs(sm.Jy) <= (amp * 4) \div 10 /\ Abs(sm.Jz) <= amp
        /\ sm.pos = <<first.xi * airflow.halfW + sm.Jx,
                      SmokeSeed.y * 1000 + sm.YAcc + sm.Jy,
                      first.eta * airflow.halfL + sm.Jz>>

\* C22: a smoke particle whose path has at least 2 samples has a progress
\* with 0 <= progress < pathLength - 1 after a build and after every visible
\* update(); when its advanced progress reaches pathLength - 1 it restarts in
\* that update with progress, jitter and vertical offset reset to 0 before
\* its position is computed.
C22_SmokeProgressInPath ==
    /\ [](Len(SmokePath) >= 2 =>
            0 <= airflow.smoke.T /\ airflow.smoke.T < (Len(SmokePath) - 1) * 1000)
    /\ [][(Calls("airflow", "update") /\ airflow.smoke.T > 0 /\ airflow'.smoke.T = 0)
             => SmokeRestarted(airflow'.smoke)]_vars

\* A particle restarted by a later frame than the first, at speed
C22_Witness ==
    /\ call = Called("airflow", "update")
    /\ frames >= 2
    /\ airflow.speed = 3500
    /\ airflow.smoke.T = 0
    /\ airflow.smoke.Jx # 0

\* The wake particle that is followed is on the side its index parity gives,
\* within the reach of a re-seed
WakeReseeded(wk) ==
    LET side == IF WakeProbe % 2 = 0 THEN 1 ELSE -1
    IN  /\ 2200 <= wk.pos.z /\ wk.pos.z <= 4000
        /\ airflow.wakeHeightRange[1] <= wk.pos.y
        /\ wk.pos.y <= airflow.wakeHeightRange[2]
        /\ 100 <= side * wk.pos.x
        /\ side * wk.pos.x <= (airflow.wakeWidthX * 7) \div 10

----------------------------------------------------------------------------
(* The sizes of the particle buffers of an AirflowEffect.  smoke.total is the
   `total` of _buildSmokeParticles: the six per-particle arrays are allocated
   with that length, the position and colour arrays with three times it;
   wake.count is the `count` of _buildWakeParticles: the position array has
   3 * count elements, the velocity array 4 * count. *)

\* The profile of the stored type has the seeds and the wake count the
\* buffers were sized from
SizedForActiveProfile ==
    LET profile == getProfile(airflow.type)
    IN  /\ profile # ObjectMember
        /\ airflow.smoke.total = Len(buildSeedList(profile)) * SMOKE_PTS
        /\ airflow.smoke.total = Len(airflow.seeds) * SMOKE_PTS
        /\ airflow.wake.count = profile.wakeCount

\* C24: the particle buffers of an AirflowEffect are sized only at build
\* time: update, setSpeed and setVisible change no buffer length, the smoke
\* arrays hold (number of seeds) x 60 particles and the wake arrays the
\* wakeCount of the active profile.
C24_BuffersSizedAtBuild ==
    /\ [](Attached("airflow") => SizedForActiveProfile)
    /\ [][(\/ Calls("airflow", "update")
           \/ Calls("airflow", "setSpeed")
           \/ Calls("airflow", "setVisible"))
             => /\ airflow'.smoke.total = airflow.smoke.total
                /\ airflow'.wake.count = airflow.wake.count
                /\ Len(airflow'.seeds) = Len(airflow.seeds)]_vars

----------------------------------------------------------------------------
(* The zone markers of a CfdEffect under wing stall *)

\* A visible update() has just returned
CfdUpdated == call = Called("cfd", "update") /\ cfd.visible /\ ~Threw

\* The zone markers whose definition has the role rearWing
RearWingBlobs ==
    {k \in DOMAIN cfd.blobMeshes : CfdBlobDefs(cfd.type)[k].role = "rearWing"}

\* The t of the last update(dt, t), as the vortex-core spirals recorded it
UpdateTime == cfd.vortexLines[1].pos[2]

\* Marker k as update() would have left it at the same speed and time had the
\* wing not been stalled
UnstalledBlob(k) ==
    CfdAnimateBlobs([cfd EXCEPT !.wingStalled = FALSE],
                    speedFactor(cfd.speed), UpdateTime).blobMeshes[k]

\* C25: after a visible update() while the wing is stalled, every rear-wing
\* zone marker has a lower opacity and a larger rendered size than it would
\* have unstalled at the same speed and time; the markers of every other role
\* are as they would be unstalled.
C25_StalledRearFaintAndLarge ==
    (CfdUpdated /\ cfd.speed > 0 /\ Len(cfd.vortexLines) > 0) =>
        \A k \in DOMAIN cfd.blobMeshes :
            IF cfd.wingStalled /\ k \in RearWingBlobs
            THEN /\ cfd.blobMeshes[k].opacity < UnstalledBlob(k).opacity
                 /\ cfd.blobMeshes[k].scale > UnstalledBlob(k).scale
            ELSE cfd.blobMeshes[k] = UnstalledBlob(k)

\* The part of C25 the code does implement: the stalled rear-wing markers are
\* fainter, and smaller, and the others are untouched
StalledRearFaintAndSmall ==
    (CfdUpdated /\ cfd.speed > 0 /\ Len(cfd.vortexLines) > 0) =>
        \A k \in DOMAIN cfd.blobMeshes :
            IF cfd.wingStalled /\ k \in RearWingBlobs
            THEN /\ cfd.blobMeshes[k].opacity < UnstalledBlob(k).opacity
                 /\ cfd.blobMeshes[k].scale < UnstalledBlob(k).scale
            ELSE cfd.blobMeshes[k] = UnstalledBlob(k)

----------------------------------------------------------------------------
(* The Cp behind the patch colours of a CfdEffect *)

\* The colours rnd(-0.05, 0.05) can give a vertex: Cp in thousandths
NoiseColors == {cpToColor(n) : n \in -50..50}

\* pressureCoeff of the top-view velocity scaled by speedFactor, minus
\* (1 - speedFactor), for the vertex (probe) of patch p
FlowCp(p, probe, sf) ==
    LET xi == IF p.w > 0 THEN ((2 * probe.i - SEG) * 1000) \div SEG ELSE 0
        eta == IF p.h > 0 THEN ((2 * probe.j - SEG) * 1000) \div SEG ELSE 0
        v == topViewVelocity((xi * 12) \div 10 + 10, (eta * 12) \div 10 + 10)
        vxi == (v.vxi * sf) \div 350
        veta == (v.veta * sf) \div 350
    IN  (1000 - (vxi * vxi + veta * veta) \div 1000) - (1000 - (sf * 1000) \div 350)

\* C26: when update() recomputes the patch colours, a patch gets the colour of
\* a noise Cp within [-0.05, 0.05] exactly when the wing is stalled and the
\* patch has the role rearWing; every other patch gets the colour of the
\* flow-derived Cp, as it would unstalled.
C26_NoiseOnlyOnStalledRearWing ==
    [][(CfdUpdateStep /\ CfdRecolored /\ ~Threw') =>
          \A k \in DOMAIN cfd'.patchMeshes : \A v \in DOMAIN PatchProbes :
              LET p == CfdPatchDefs(cfd.type)[k]
                  color == cfd'.patchMeshes[k].colors[v]
              IN  IF cfd.wingStalled /\ p.role = "rearWing"
                  THEN color \in NoiseColors
                  ELSE color = cpToColor(FlowCp(p, PatchProbes[v],
                                                speedFactor(cfd.speed)))]_vars

\* C26 witness: the colours were just recomputed at full speed with the wing
\* stalled, and a rear-wing patch carries a noise colour that is not the
\* colour the flow would give it, next to a patch coloured by the flow
C26_Witness ==
    /\ CfdUpdated
    /\ cfd.wingStalled
    /\ cfd.speed = 4000
    /\ recolorAt = cfd.speed
    /\ \E k \in DOMAIN cfd.patchMeshes : \E v \in DOMAIN PatchProbes :
          LET p == CfdPatchDefs(cfd.type)[k]
          IN  /\ p.role = "rearWing"
              /\ cfd.patchMeshes[k].colors[v] \in NoiseColors
              /\ cfd.patchMeshes[k].colors[v]
                    # cpToColor(FlowCp(p, PatchProbes[v], 350))
    /\ \E k \in DOMAIN cfd.patchMeshes :
          CfdPatchDefs(cfd.type)[k].role # "rearWing"

----------------------------------------------------------------------------
(* The speed the patch colours of a CfdEffect stand for *)

\* The patches carry what _updatePatchColors writes at speed s: the opacity
\* of s on every patch and, on every patch the stall noise never touches, the
\* colours of the flow-derived Cp of s
ColouredFor(s) ==
    \A k \in DOMAIN cfd.patchMeshes :
        LET p == CfdPatchDefs(cfd.type)[k]
        IN  /\ cfd.patchMeshes[k].opacity = (speedFactor(s) * 550000) \div 350
            /\ p.role # "rearWing" =>
                  \A v \in DOMAIN PatchProbes :
                      cfd.patchMeshes[k].colors[v]
                          = cpToColor(FlowCp(p, PatchProbes[v], speedFactor(s)))

\* C27: after every visible update() the patches carry the colours computed
\* at a speed within 5 of the current speed, and the visible update() that
\* follows a setCarType which rebuilt the patches recolours them.
C27_ColoursTrackSpeed ==
    /\ []((CfdUpdated /\ cfd.patchMeshes # <<>>) =>
             \E s \in Speeds : Abs(cfd.speed - s) <= 50 /\ ColouredFor(s))
    /\ [][(/\ call = Called("cfd", "setCarType")
           /\ ~Threw
           /\ recolorAt = -1
           /\ CfdUpdateStep
           /\ cfd.visible) => CfdRecolored]_vars

----------------------------------------------------------------------------
(* The wing-stall state of the page and of its effects *)

\* C28: on the running page, whenever the CfdEffect or the AirflowEffect is
\* visible its wing-stall flag equals the page's wingFlipped, whatever the
\* order of wing-stall clicks, environment toggles, car selections and
\* resets.
C28_VisibleEffectTracksWing ==
    host.pc = "running" =>
        /\ (bound["cfd"] = "real" /\ cfd.visible)
              => cfd.wingStalled = host.wingFlipped
        /\ (bound["airflow"] = "real" /\ airflow.visible)
              => "setWingStall" \in Methods("airflow")

----------------------------------------------------------------------------
(* The page under frames that keep occurring.  requestAnimationFrame(animate)
   is the first statement of animate(), so once the loop has started every
   frame schedules the next and real time passes between two frames: frames
   with dt > 0 are weakly fair.  No environment is switched on here, so no
   effect is visible and state.time, which only update() of a visible effect
   reads, is followed modulo ClockWrap. *)

ClockWrap == 4

WrapClock(w) == [w EXCEPT !.host.time = @ % ClockWrap]

\* One frame in which no update() throws
LiveFrame(dt) ==
    \E u \in AirflowUpdateDraws, noise \in CfdNoiseDraws :
        /\ host.pc = "running"
        /\ HostStep("animate")
        /\ UNCHANGED frames
        /\ \E w \in {WrapClock(animate(World, dt, u, noise,
                                        [e \in Effects |-> "none"]))} : Apply(w)

\* A frame after time has passed: 0 < dt <= 0.05
DoHostTick == \E dt \in 1..MaxDt : LiveFrame(dt)

\* A frame with clock.getDelta() = 0
DoHostIdleFrame == LiveFrame(0)

WingLiveNext ==
    \/ DoHostLoad
    \/ DoHostTick
    \/ DoHostIdleFrame
    \/ DoHostWingFlip
    \/ DoHostPause
    \/ DoHostCarClick
    \/ DoHostReset

\* The page with its wing-stall, pause, car and reset buttons
WingLiveSpec == HostInit /\ [][WingLiveNext]_vars /\ WF_vars(DoHostTick)

\* positions of the speed slider: the frames between two targets are followed
\* one by one, so the targets are kept within 10 km/h
SliderSpeeds == {0, 70, 100}

\* speedSlider 'input'
DoHostSlide ==
    \E v \in SliderSpeeds :
        /\ host.pc = "running"
        /\ Apply(HostSetSpeed(Begin(World), v))
        /\ HostStep("setSpeed")
        /\ UNCHANGED frames

SpeedLiveNext ==
    \/ DoHostLoad
    \/ DoHostTick
    \/ DoHostIdleFrame
    \/ DoHostSlide
    \/ DoHostPause
    \/ DoHostReset

\* The page with its speed controls, pause and reset buttons
SpeedLiveSpec == HostInit /\ [][SpeedLiveNext]_vars /\ WF_vars(DoHostTick)

\* A wing-stall click while the flip animation runs changes nothing
FlipClickIgnored ==
    [][(Calls("host", "wingFlip") /\ host.wingFlipping)
          => /\ host'.wingFlipped = host.wingFlipped
             /\ host'.wingFlipT = host.wingFlipT
             /\ host'.wingFlipping
             /\ host'.rearWingRot = host.rearWingRot
             /\ cfd' = cfd]_vars

\* C29: a wing-stall click during a flip animation is ignored, and while
\* frames keep occurring every started flip animation eventually completes,
\* with wingFlipT = 1 and wingFlipping false, also while paused.
C29_FlipCompletes ==
    /\ FlipClickIgnored
    /\ host.wingFlipping ~> (~host.wingFlipping /\ host.wingFlipT = 16)

\* A frame with dt > 0 while the simulation is not paused
UnpausedTick == ~host.paused /\ DoHostTick

\* C29 amended: a wing-stall click during a flip animation is ignored, and
\* while unpaused frames keep occurring every started flip animation
\* eventually ends: wingFlipping is false, with wingFlipT = 1 when it ran to
\* completion and wingFlipT = 0 when a car selection or reset cancelled it.
\* While paused the animation does not advance.
C29_FlipEndsUnpaused ==
    /\ FlipClickIgnored
    /\ []<><<UnpausedTick>>_vars => (host.wingFlipping ~> ~host.wingFlipping)
    /\ [](~host.wingFlipping => host.wingFlipT \in {0, 16})
    /\ [][(~host.wingFlipping' /\ host'.wingFlipT = 0)
            => (host.wingFlipT = 0 \/ Calls("host", "carClick")
                                  \/ Calls("host", "reset"))]_vars
    /\ [][(Calls("host", "animate") /\ host.paused)
            => host'.wingFlipT = host.wingFlipT]_vars

\* C29 witness: the flip to the stalled position has run to completion in a
\* frame
C29_Witness ==
    /\ call = Called("host", "animate")
    /\ host.wingFlipped
    /\ ~host.wingFlipping
    /\ host.wingFlipT = 16

\* A frame moves the speed towards the target and not past it
SpeedApproaches ==
    [][Calls("host", "animate") =>
          /\ host'.targetSpeed = host.targetSpeed
          /\ IF host.speed <= host.targetSpeed
             THEN host.speed <= host'.speed /\ host'.speed <= host.targetSpeed
             ELSE host.targetSpeed <= host'.speed /\ host'.speed <= host.speed]_vars

\* The interval the targets lie in
SpeedInTargetRange ==
    /\ \E v \in SliderSpeeds : v <= host.speed
    /\ \E v \in SliderSpeeds : host.speed <= v

\* C30: while frames with dt > 0 keep occurring, a target speed that stays
\* fixed is reached by the smoothed speed after finitely many frames, each
\* frame moving the speed towards the target without passing it, and the
\* speed then stays at the target; the speed never leaves the interval the
\* targets lie in, so it stays in [0, 350] when every target does.
C30_SpeedReachesTarget ==
    /\ \A v \in SliderSpeeds :
          <>[](host.targetSpeed = v) => <>[](host.speed = v)
    /\ SpeedApproaches
    /\ []SpeedInTargetRange

\* C30 witness: a frame with dt > 0 has just brought the speed down to a
\* target of 7 km/h that lies between the other targets
C30_Witness ==
    /\ call = Called("host", "animate")
    /\ host.targetSpeed = 70
    /\ host.speed = 70
    /\ cfd.speed = 100

====
